---- MODULE Spec2Model ----
(***************************************************************************)
(* Room/session engine of the Sociables party card game server             *)
(* (packages/server/dist/index.js).                                        *)
(*                                                                         *)
(* The state is the server's module-level maps (rooms, socketToPlayer,     *)
(* roomCleanupTimeouts, byId), the wall clock read by Date.now(), and the  *)
(* ids handed out by nanoid.  Every socket handler, the 500 ms sweep       *)
(* interval and the inactivity timeout callback is one action; handlers    *)
(* run to completion (Node's single thread), so an action is a whole       *)
(* handler.                                                                *)
(*                                                                         *)
(* Time is counted in seconds (the code counts milliseconds; the deadlines *)
(* of the game are whole numbers of seconds); the request deduplication    *)
(* system, whose deadlines fall between seconds, has the clock in          *)
(* milliseconds in limiter.now.  Ids are small      *)
(* naturals (player ids, ack ids; 0 stands for a missing / empty id) and   *)
(* strings (room codes, socket ids, card ids).  A nullable field holds     *)
(* Null (the empty tuple) or Some(v) (a one-element tuple).  A display     *)
(* name is the sequence of its characters.  Message texts are not part of  *)
(* this model: a log entry is represented by a tag naming the message.     *)
(***************************************************************************)
EXTENDS Integers, Sequences, FiniteSets, TLC

VARIABLES
    rooms,                \* const rooms = new Map()            roomCode -> room
    socketToPlayer,       \* const socketToPlayer = new Map()   socket.id -> {roomCode, playerId}
    roomCleanupTimeouts,  \* const roomCleanupTimeouts = new Map()  roomCode -> time the timeout fires
    byId,                 \* const byId = new Map(...)          card ids currently in the catalog
    now,                  \* Date.now(), in seconds
    nanoid,               \* ids generated so far: [codes, players, acks]
    limiter               \* the request deduplication system: const pendingRequests =
                          \* new Map(), its pending setTimeout callbacks, Date.now() in
                          \* milliseconds, and the time each key was last let through

vars == <<rooms, socketToPlayer, roomCleanupTimeouts, byId, now, nanoid, limiter>>

----------------------------------------------------------------------------
(* Bounds of the model *)

MaxMembers == 4     \* player/spectator ids nanoid(10) hands out in one run
MaxLog == 7         \* log entries a room accumulates in one run
MaxTime == 75       \* last clock value of the game specification, seconds
MaxIdle == 600      \* last clock value of the registry specification, seconds
MaxAcks == 3        \* ack ids nanoid(8) hands out in one run
MaxMs == 1500       \* last clock value of the deduplication specification, milliseconds
MsStep == 100       \* amount by which that clock advances, milliseconds
MaxHistory == 9     \* cards drawn before the draw the deck specification follows

RoomCodes == {"ROOM01"}
SocketIds == {"s1", "s2", "s3", "s4"}
TimeSteps == {15}   \* amounts by which the clock advances during a game, seconds
IdleSteps == {150}  \* amounts by which the clock advances over an idle room

----------------------------------------------------------------------------
(* Program constants *)

ROOM_INACTIVE_TIMEOUT == 300   \* 5 * 60 * 1000 ms
SWEEP_NUDGE_REMAINING == 15    \* remainingMs <= 15000
RPS_EXPIRY == 60               \* expiresAt: now + 60000
WYR_EXPIRY == 75               \* expiresAt: now + 75000

Null == <<>>
Some(v) == <<v>>
NoId == 0

----------------------------------------------------------------------------
(* Card catalog.  A card is represented by what the server reads of it:    *)
(* its type, its resolution kind, which of the phrases the server searches *)
(* for occur in its lower-cased title (titleHas) and in its lower-cased    *)
(* title + " " + body (txtHas), and the first number in that text (0 when  *)
(* there is none).                                                         *)

\* UltimateDeck entries f1, f3, r1, c1, j2 of packages/shared/src/deck.ts.
UltimateDeck == <<"f1", "f3", "r1", "c1", "j2">>

\* Cards an operator saved with admin:saveCard (resolution kinds of the
\* interactive mini-games; type defaults to "forfeit").
customCards == <<"rps1", "wyr1">>

\* Another card saved with admin:saveCard: it asks for a target and a number
\* (resolution kind chooseTargetAndNumber).
numberCards == <<"tn1">>

\* Cards of every type and resolution kind, saved with admin:saveCard under
\* the id type/kind/text; the body of a card is "" or holds the phrase "vote".
CardTypes == {"forfeit", "rule", "role", "curse", "joker", "event"}
ResolutionKinds ==
    {"none", "chooseTarget", "chooseNumber", "chooseTargetAndNumber", "chooseTwoTargets",
     "createRuleText", "rockPaperScissors", "wouldYouRather"}
CardTexts == {"", "vote"}

timerCards ==
    {[id |-> type \o "/" \o kind \o "/" \o text, type |-> type, kind |-> kind,
      titleHas |-> {}, txtHas |-> {text} \ {""}, firstNumber |-> 0] :
        type \in CardTypes, kind \in ResolutionKinds, text \in CardTexts}

Card(id) ==
    CASE id = "f1" ->   \* "Drink" / "Take 1 drink."
           [id |-> id, type |-> "forfeit", kind |-> "none",
            titleHas |-> {}, txtHas |-> {"drink", "take"}, firstNumber |-> 1]
      [] id = "f3" ->   \* "Give 2" / "Give 2 drinks to another player."
           [id |-> id, type |-> "forfeit", kind |-> "chooseTarget",
            titleHas |-> {}, txtHas |-> {"drink"}, firstNumber |-> 2]
      [] id = "r1" ->   \* "Make a Rule" / "Create a new rule. Anyone who breaks it drinks."
           [id |-> id, type |-> "rule", kind |-> "createRuleText",
            titleHas |-> {}, txtHas |-> {"drink"}, firstNumber |-> 0]
      [] id = "c1" ->   \* "Left Hand Curse" / "You must drink with your left hand."
           [id |-> id, type |-> "curse", kind |-> "chooseTarget",
            titleHas |-> {}, txtHas |-> {"drink"}, firstNumber |-> 0]
      [] id = "j2" ->   \* "Transfer Curse" / "Move a curse from one player to another."
           [id |-> id, type |-> "joker", kind |-> "chooseTwoTargets",
            titleHas |-> {"transfer curse"}, txtHas |-> {}, firstNumber |-> 0]
      [] id = "rps1" -> \* custom: "Rock Paper Scissors" / "Challenge a player."
           [id |-> id, type |-> "forfeit", kind |-> "rockPaperScissors",
            titleHas |-> {}, txtHas |-> {}, firstNumber |-> 0]
      [] id = "wyr1" -> \* custom: "Would You Rather" / "A) ... B) ..."
           [id |-> id, type |-> "forfeit", kind |-> "wouldYouRather",
            titleHas |-> {}, txtHas |-> {}, firstNumber |-> 0]
      [] id = "tn1" ->  \* custom: "Hand Out" / "Give drinks to a player."
           [id |-> id, type |-> "forfeit", kind |-> "chooseTargetAndNumber",
            titleHas |-> {}, txtHas |-> {"drink"}, firstNumber |-> 0]
      [] OTHER -> CHOOSE c \in timerCards : c.id = id

SeqToSet(s) == {s[i] : i \in 1..Len(s)}

----------------------------------------------------------------------------
(* Small helpers *)

Min(a, b) == IF a < b THEN a ELSE b
Max(a, b) == IF a > b THEN a ELSE b

\* Array.prototype.filter
Filter(s, keep(_)) == SelectSeq(s, keep)

\* Array.prototype.find: Some(first match) or Null
Find(s, match(_)) ==
    LET f == Filter(s, match) IN IF f = <<>> THEN Null ELSE Some(f[1])

\* obj[key] = value on an object used as a map
Put(f, k, v) == (k :> v) @@ f

\* delete obj[key]
Delete(f, k) == [x \in DOMAIN f \ {k} |-> f[x]]

\* String.prototype.trim on a text given as a sequence of characters
RECURSIVE TrimLeft(_)
TrimLeft(t) == IF t # <<>> /\ Head(t) = " " THEN TrimLeft(Tail(t)) ELSE t

RECURSIVE TrimRight(_)
TrimRight(t) ==
    IF t # <<>> /\ t[Len(t)] = " " THEN TrimRight(SubSeq(t, 1, Len(t) - 1)) ELSE t

trim(t) == TrimRight(TrimLeft(t))

----------------------------------------------------------------------------
(* Room helpers *)

\* a bug to tell from pushLog: over the cap the newest entries are dropped
pushLog_dropsNewest(room, tag) ==
    LET log == Append(room.log, tag)
    IN  [room EXCEPT !.log = IF Len(log) > 200 THEN SubSeq(log, 1, 200) ELSE log]

pushLog(room, tag) ==
    LET log == Append(room.log, tag)
    IN  [room EXCEPT !.log = IF Len(log) > 200
                               THEN SubSeq(log, Len(log) - 200 + 1, Len(log))
                               ELSE log]

ensurePlayerStats(room, pid) ==
    IF pid \in DOMAIN room.drinkStats THEN room
    ELSE [room EXCEPT !.drinkStats = Put(@, pid, [given |-> 0, taken |-> 0])]

IsPlayer(p) == p.mode = "player"

activePlayers(room) == Filter(room.players, IsPlayer)

currentTurnPlayer(room) ==
    LET AtTurn(p) == p.seatIndex = room.turnIndex
    IN  Find(activePlayers(room), AtTurn)

assertIsTurnPlayer(room, playerId) ==
    LET cur == currentTurnPlayer(room)
    IN  IF cur = Null THEN [ok |-> FALSE, error |-> "NO_TURN_PLAYER"]
        ELSE IF cur[1].playerId # playerId THEN [ok |-> FALSE, error |-> "NOT_YOUR_TURN"]
        ELSE [ok |-> TRUE, error |-> ""]

\* a bug to tell from nextTurnIndex: the index does not wrap after the last
\* seat
nextTurnIndex_noWrap(room) ==
    LET ap == activePlayers(room)
    IN  IF Len(ap) = 0 THEN 0 ELSE room.turnIndex + 1

\* nextTurn mutates room.turnIndex and returns the announced player id
nextTurnIndex(room) ==
    LET ap == activePlayers(room)
    IN  IF Len(ap) = 0 THEN 0 ELSE (room.turnIndex + 1) % Len(ap)

\* a bug to tell from nextTurn: the turn waits while a confirmation is pending
nextTurn_awaitsAcks(room) ==
    IF \E i \in 1..Len(room.pendingAcks) : room.pendingAcks[i].status = "pending"
    THEN room
    ELSE [room EXCEPT !.turnIndex = nextTurnIndex(room)]

nextTurn(room) == [room EXCEPT !.turnIndex = nextTurnIndex(room)]

nextTurnPlayerId(room) ==
    LET ap == activePlayers(room)
        after == nextTurn(room)
        cur == currentTurnPlayer(after)
    IN  IF Len(ap) = 0 THEN NoId
        ELSE IF cur # Null THEN cur[1].playerId
        ELSE ap[1].playerId

\* a bug to tell from isHost: every seated player passes for the host
isHost_anyPlayer(room, playerId) ==
    \E i \in 1..Len(room.players) : room.players[i].playerId = playerId

isHost(room, playerId) ==
    LET AtSeat0(p) == p.seatIndex = 0
        h == Find(activePlayers(room), AtSeat0)
    IN  h # Null /\ h[1].playerId = playerId

MemberIds(room) ==
    {room.players[i].playerId : i \in 1..Len(room.players)}
        \cup {room.spectators[i].playerId : i \in 1..Len(room.spectators)}

ActiveIds(room) == {p.playerId : p \in SeqToSet(activePlayers(room))}

----------------------------------------------------------------------------
(* Inactivity cleanup *)

\* scheduleRoomCleanup: clearTimeout(existing); setTimeout(..., ROOM_INACTIVE_TIMEOUT)
scheduleRoomCleanup(timeouts, roomCode) ==
    Put(timeouts, roomCode, now + ROOM_INACTIVE_TIMEOUT)

\* updateRoomActivity, on the room record
touch(room) == [room EXCEPT !.lastActivity = now]

----------------------------------------------------------------------------
\* the deduplication system with nothing to remember
NoRequests == [pendingRequests |-> <<>>, timeouts |-> {}, now |-> 0, accepted |-> <<>>]

Init ==
    /\ rooms = <<>>
    /\ socketToPlayer = <<>>
    /\ roomCleanupTimeouts = <<>>
    /\ byId = SeqToSet(UltimateDeck)
    /\ now = 0
    /\ nanoid = [codes |-> {}, players |-> 0, acks |-> 0]
    /\ limiter = NoRequests


----------------------------------------------------------------------------
(* Room registry and connection tracker *)

\* cleanupRoomIds: the three maps after the room is destroyed
cleanupRoomIds_sockets(roomCode) ==
    LET room == rooms[roomCode]
        gone == {room.players[i].socketId : i \in 1..Len(room.players)}
                    \cup {room.spectators[i].socketId : i \in 1..Len(room.spectators)}
    IN  [x \in DOMAIN socketToPlayer \ gone |-> socketToPlayer[x]]

cleanupRoomIds(roomCode) ==
    /\ socketToPlayer' = cleanupRoomIds_sockets(roomCode)
    /\ rooms' = Delete(rooms, roomCode)
    /\ roomCleanupTimeouts' = Delete(roomCleanupTimeouts, roomCode)

\* updateRoomActivity(roomCode) after the handler has produced room r
updateRoomActivity(roomCode, r) ==
    /\ rooms' = Put(rooms, roomCode, touch(r))
    /\ roomCleanupTimeouts' = scheduleRoomCleanup(roomCleanupTimeouts, roomCode)

\* the run's budget of log entries
WithinLog(r) == Len(r.log) <= MaxLog

\* String.prototype.toLowerCase, on the letters the names of the model use
toLowerCase(t) ==
    [i \in 1..Len(t) |-> CASE t[i] = "B" -> "b" [] t[i] = "O" -> "o" [] OTHER -> t[i]]

isNameTaken(room, name) ==
    LET allNames == {toLowerCase(room.players[i].name) : i \in 1..Len(room.players)}
                        \cup {toLowerCase(room.spectators[i].name) :
                                  i \in 1..Len(room.spectators)}
    IN  toLowerCase(name) \in allNames

\* the name of the member who is given playerId, where the model follows
\* members who join under names of their own
guestName(playerId) == <<"g", ToString(playerId)>>

NewRoom(roomCode, playerId, socketId, name) ==
    [ roomCode |-> roomCode,
      deckOrder |-> UltimateDeck,
      drawIndex |-> 0,
      discard |-> <<>>,
      players |-> << [playerId |-> playerId, name |-> trim(name), seatIndex |-> 0,
                      connected |-> TRUE, mode |-> "player", socketId |-> socketId] >>,
      spectators |-> <<>>,
      turnIndex |-> 0,
      started |-> TRUE,
      paused |-> FALSE,
      currentDraw |-> Null,
      turnTimer |-> Null,
      activeEffects |-> [rules |-> <<>>, rolesByPlayerId |-> <<>>,
                         cursesByPlayerId |-> <<>>, currentEvent |-> Null],
      log |-> <<>>,
      settings |-> [safeMode |-> FALSE, dynamicWeighting |-> TRUE, customDeckOrder |-> <<>>],
      drinkStats |-> (playerId :> [given |-> 0, taken |-> 0]),
      pendingAcks |-> <<>>,
      awaitingAcksForCardId |-> Null,
      createdAt |-> now,
      lastActivity |-> now,
      hostSocketId |-> socketId,
      interaction |-> Null,
      afkNudged |-> Null ]

\* the answer of room:create to a request that is not stopped by the rate
\* limiter: its guards, in the handler's order
room_create_cb(name) ==
    IF name = <<>> \/ trim(name) = <<>> THEN "INVALID_NAME"
    ELSE IF Len(name) > 20 THEN "INVALID_NAME"
    ELSE "ok"

\* socket.on("room:create") once nanoid(6) has come up with roomCode
RoomCreateCoded(socket, name, roomCode) ==
    LET playerId == nanoid.players + 1
        room == pushLog(NewRoom(roomCode, playerId, socket, name), "created")
    IN  /\ room_create_cb(name) = "ok"
        /\ playerId <= MaxMembers
        /\ nanoid' = [nanoid EXCEPT !.codes = @ \cup {roomCode}, !.players = playerId]
        /\ rooms' = Put(rooms, roomCode, room)
        /\ socketToPlayer' = Put(socketToPlayer, socket,
                                 [roomCode |-> roomCode, playerId |-> playerId])
        /\ roomCleanupTimeouts' = scheduleRoomCleanup(roomCleanupTimeouts, roomCode)
        /\ UNCHANGED <<byId, now>>

\* socket.on("room:create"), from the point where the deduplication check
\* has let the request through
RoomCreateAccepted(socket, name) ==
    \E roomCode \in RoomCodes \ nanoid.codes : RoomCreateCoded(socket, name, roomCode)

\* socket.on("room:create") by a connection whose last room:create is more
\* than the cooldown and the cleanup delay back: the deduplication system
\* holds nothing for it, before the request and by the connection's next one
RoomCreate(socket, name) ==
    /\ RoomCreateAccepted(socket, name)
    /\ UNCHANGED limiter

\* the room after room:join has added the member and logged it
joinRoom(room, playerId, socket, spectator, name) ==
    LET member == [playerId |-> playerId,
                   name |-> trim(name),
                   seatIndex |-> IF spectator THEN -1 ELSE Len(activePlayers(room)),
                   connected |-> TRUE,
                   mode |-> IF spectator THEN "spectator" ELSE "player",
                   socketId |-> socket]
        r1 == IF spectator
              THEN [room EXCEPT !.spectators = Append(@, member)]
              ELSE [room EXCEPT !.players = Append(@, member)]
        r2 == [r1 EXCEPT !.drinkStats = Put(@, playerId, [given |-> 0, taken |-> 0])]
    IN  pushLog(r2, "joined")

\* the answer of room:join to a request with a well-formed room code that
\* is not stopped by the rate limiter: its guards, in the handler's order
room_join_cb(roomCode, name) ==
    IF name = <<>> \/ trim(name) = <<>> THEN "INVALID_NAME"
    ELSE IF Len(name) > 20 THEN "INVALID_NAME"
    ELSE IF roomCode \notin DOMAIN rooms THEN "ROOM_NOT_FOUND"
    ELSE IF isNameTaken(rooms[roomCode], name) THEN "NAME_TAKEN"
    ELSE "ok"

\* socket.on("room:join"), from the point where the deduplication check has
\* let the request through
RoomJoinAccepted(socket, roomCode, spectator, name) ==
    /\ room_join_cb(roomCode, name) = "ok"
    /\ LET playerId == nanoid.players + 1
           r == joinRoom(rooms[roomCode], playerId, socket, spectator, name)
       IN  /\ playerId <= MaxMembers
           /\ WithinLog(r)
           /\ nanoid' = [nanoid EXCEPT !.players = playerId]
           /\ socketToPlayer' = Put(socketToPlayer, socket,
                                    [roomCode |-> roomCode, playerId |-> playerId])
           /\ updateRoomActivity(roomCode, r)
           /\ UNCHANGED <<byId, now>>

\* socket.on("room:join") by a connection whose last room:join is more than
\* the cooldown and the cleanup delay back
RoomJoin(socket, roomCode, spectator, name) ==
    /\ RoomJoinAccepted(socket, roomCode, spectator, name)
    /\ UNCHANGED limiter

----------------------------------------------------------------------------
(* Request deduplication system *)

COOLDOWN_MS == 1000
CLEANUP_DELAY_MS == 100

\* the key `${socketId}:${action}`
RequestKey(socketId, action) == <<socketId, action>>

\* canProcessRequest, its result: true unless the key's last recorded
\* request is less than the cooldown back
canProcessRequest(lim, key) ==
    ~(key \in DOMAIN lim.pendingRequests
        /\ lim.now - lim.pendingRequests[key] < COOLDOWN_MS)

\* canProcessRequest letting a request through: pendingRequests.set(key, now)
\* and setTimeout(() => pendingRequests.delete(key), cooldownMs + 100); the
\* run's record of the key's last accepted request is brought up to date
recordRequest(lim, key) ==
    [lim EXCEPT !.pendingRequests = Put(@, key, lim.now),
                !.timeouts = @ \cup {[key |-> key, due |-> lim.now + COOLDOWN_MS + CLEANUP_DELAY_MS]},
                !.accepted = Put(@, key, lim.now)]

\* the whole of socket.on("room:create"): an invalid name is answered
\* INVALID_NAME before the deduplication check, a request the check stops is
\* answered TOO_MANY_REQUESTS, and neither changes anything
RoomCreateLimited(socket, name) ==
    /\ canProcessRequest(limiter, RequestKey(socket, "room:create"))
    /\ limiter' = recordRequest(limiter, RequestKey(socket, "room:create"))
    /\ RoomCreateAccepted(socket, name)

\* the whole of socket.on("room:join"), for a well-formed room code: after
\* the deduplication check has let the request through it may still be
\* answered ROOM_NOT_FOUND or NAME_TAKEN
RoomJoinLimited(socket, roomCode, spectator, name) ==
    /\ room_join_cb(roomCode, name) # "INVALID_NAME"
    /\ canProcessRequest(limiter, RequestKey(socket, "room:join"))
    /\ limiter' = recordRequest(limiter, RequestKey(socket, "room:join"))
    /\ IF room_join_cb(roomCode, name) = "ok"
       THEN RoomJoinAccepted(socket, roomCode, spectator, name)
       ELSE UNCHANGED <<rooms, socketToPlayer, roomCleanupTimeouts, byId, now, nanoid>>

\* the setTimeout callback of canProcessRequest: pendingRequests.delete(key)
pendingRequestsTimeout(t) ==
    /\ t \in limiter.timeouts
    /\ t.due <= limiter.now
    /\ limiter' = [limiter EXCEPT !.pendingRequests = Delete(@, t.key),
                                  !.timeouts = @ \ {t}]
    /\ UNCHANGED <<rooms, socketToPlayer, roomCleanupTimeouts, byId, now, nanoid>>

\* time passes for the deduplication system; a timeout that is due runs
\* before the clock moves on
LimiterTick(step, limit) ==
    /\ limiter.now + step <= limit
    /\ \A t \in limiter.timeouts : t.due > limiter.now
    /\ limiter' = [limiter EXCEPT !.now = @ + step]
    /\ UNCHANGED <<rooms, socketToPlayer, roomCleanupTimeouts, byId, now, nanoid>>

\* the member list with member playerId changed by f
MapMember(list, playerId, f(_)) ==
    [i \in 1..Len(list) |-> IF list[i].playerId = playerId THEN f(list[i]) ELSE list[i]]

\* socket.on("player:reconnect")
PlayerReconnect(socket, roomCode, playerId) ==
    /\ roomCode \in DOMAIN rooms
    /\ LET room == rooms[roomCode]
           Bind(m) == [m EXCEPT !.connected = TRUE, !.socketId = socket]
           Is(m) == m.playerId = playerId
           player == Find(room.players, Is)
           spectator == Find(room.spectators, Is)
           r1 == IF player # Null
                 THEN [room EXCEPT !.players = MapMember(@, playerId, Bind)]
                 ELSE [room EXCEPT !.spectators = MapMember(@, playerId, Bind)]
           r2 == pushLog(r1, "reconnected")
       IN  /\ player # Null \/ spectator # Null      \* else PLAYER_NOT_FOUND
           /\ WithinLog(r2)
           /\ socketToPlayer' = Put(socketToPlayer, socket,
                                    [roomCode |-> roomCode, playerId |-> playerId])
           /\ updateRoomActivity(roomCode, r2)
           /\ UNCHANGED <<byId, now, nanoid, limiter>>

\* socket.on("disconnect")
Disconnect(socket) ==
    /\ socket \in DOMAIN socketToPlayer
    /\ socketToPlayer[socket].roomCode \in DOMAIN rooms
    /\ LET roomCode == socketToPlayer[socket].roomCode
           playerId == socketToPlayer[socket].playerId
           room == rooms[roomCode]
           Is(m) == m.playerId = playerId
           IsNot(m) == m.playerId # playerId
           player == Find(room.players, Is)
           spectator == Find(room.spectators, Is)
           Unbind(m) == [m EXCEPT !.connected = FALSE, !.socketId = ""]
       IN  IF player # Null
           THEN IF player[1].seatIndex = 0
                THEN \* host disconnected: socketToPlayer.delete(socket.id), then cleanupRoomIds
                     /\ socketToPlayer' =
                            [x \in DOMAIN cleanupRoomIds_sockets(roomCode) \ {socket}
                                |-> socketToPlayer[x]]
                     /\ rooms' = Delete(rooms, roomCode)
                     /\ roomCleanupTimeouts' = Delete(roomCleanupTimeouts, roomCode)
                ELSE /\ socketToPlayer' = Delete(socketToPlayer, socket)
                     /\ updateRoomActivity(roomCode,
                            [room EXCEPT !.players = MapMember(@, playerId, Unbind)])
           ELSE IF spectator # Null
           THEN /\ socketToPlayer' = Delete(socketToPlayer, socket)
                /\ updateRoomActivity(roomCode,
                       [room EXCEPT !.spectators = Filter(@, IsNot)])
           ELSE /\ socketToPlayer' = Delete(socketToPlayer, socket)
                /\ UNCHANGED <<rooms, roomCleanupTimeouts>>
    /\ UNCHANGED <<byId, now, nanoid, limiter>>

\* removal of a player by host:kick and admin:kickPlayer
kickPlayer(room, targetPlayerId, tag) ==
    LET IsNot(m) == m.playerId # targetPlayerId
        r1 == [room EXCEPT !.players = Filter(@, IsNot),
                           !.drinkStats = Delete(@, targetPlayerId)]
    IN  pushLog(r1, tag)

\* room.players.find(p => p.seatIndex === 0), as host:kick and host:close-room
\* look the host up
hostPlayerOf(room) ==
    LET AtSeat0(p) == p.seatIndex = 0 IN Find(room.players, AtSeat0)

\* the answer of host:kick: its guards, in the handler's order
host_kick_cb(socket, roomCode, targetPlayerId) ==
    IF targetPlayerId = NoId THEN "INVALID_INPUT"
    ELSE IF roomCode \notin DOMAIN rooms THEN "ROOM_NOT_FOUND"
    ELSE IF socket \notin DOMAIN socketToPlayer THEN "PLAYER_NOT_FOUND"
    ELSE LET room == rooms[roomCode]
             playerId == socketToPlayer[socket].playerId
             hostPlayer == hostPlayerOf(room)
         IN  IF hostPlayer = Null \/ hostPlayer[1].playerId # playerId THEN "NOT_HOST"
             ELSE IF \A i \in 1..Len(room.players) : room.players[i].playerId # targetPlayerId
             THEN "PLAYER_NOT_FOUND"
             ELSE IF targetPlayerId = playerId THEN "CANNOT_KICK_SELF"
             ELSE "ok"

\* socket.on("host:kick")
HostKick(socket, roomCode, targetPlayerId) ==
    /\ host_kick_cb(socket, roomCode, targetPlayerId) = "ok"
    /\ LET room == rooms[roomCode]
           Is(m) == m.playerId = targetPlayerId
           targetPlayer == Find(room.players, Is)
           r == kickPlayer(room, targetPlayerId, "kicked by host")
       IN  /\ WithinLog(r)
           /\ socketToPlayer' = Delete(socketToPlayer, targetPlayer[1].socketId)
           /\ updateRoomActivity(roomCode, r)
    /\ UNCHANGED <<byId, now, nanoid, limiter>>

\* adminNamespace socket.on("admin:kickPlayer")
AdminKickPlayer(roomCode, playerId) ==
    /\ roomCode \in DOMAIN rooms
    /\ LET room == rooms[roomCode]
           Is(m) == m.playerId = playerId
           player == Find(room.players, Is)
           r == kickPlayer(room, playerId, "kicked by admin")
       IN  /\ player # Null                                            \* else PLAYER_NOT_FOUND
           /\ WithinLog(r)
           /\ socketToPlayer' = Delete(socketToPlayer, player[1].socketId)
           /\ updateRoomActivity(roomCode, r)
    /\ UNCHANGED <<byId, now, nanoid, limiter>>

\* the answer of host:close-room: its guards, in the handler's order
host_close_room_cb(socket, roomCode) ==
    IF roomCode \notin DOMAIN rooms THEN "ROOM_NOT_FOUND"
    ELSE IF socket \notin DOMAIN socketToPlayer THEN "PLAYER_NOT_FOUND"
    ELSE LET hostPlayer == hostPlayerOf(rooms[roomCode])
         IN  IF hostPlayer = Null \/ hostPlayer[1].playerId # socketToPlayer[socket].playerId
             THEN "NOT_HOST"
             ELSE "ok"

\* socket.on("host:close-room")
HostCloseRoom(socket, roomCode) ==
    /\ host_close_room_cb(socket, roomCode) = "ok"
    /\ cleanupRoomIds(roomCode)
    /\ UNCHANGED <<byId, now, nanoid, limiter>>

\* adminNamespace socket.on("admin:closeRoom")
AdminCloseRoom(roomCode) ==
    /\ roomCode \in DOMAIN rooms
    /\ cleanupRoomIds(roomCode)
    /\ UNCHANGED <<byId, now, nanoid, limiter>>

\* the setTimeout callback of scheduleRoomCleanup: cleanupInactiveRoom
cleanupInactiveRoom(roomCode) ==
    /\ roomCode \in DOMAIN roomCleanupTimeouts
    /\ roomCleanupTimeouts[roomCode] <= now
    /\ IF roomCode \notin DOMAIN rooms
       THEN /\ roomCleanupTimeouts' = Delete(roomCleanupTimeouts, roomCode)
            /\ UNCHANGED <<rooms, socketToPlayer>>
       ELSE IF now - rooms[roomCode].lastActivity >= ROOM_INACTIVE_TIMEOUT
       THEN cleanupRoomIds(roomCode)
       ELSE /\ roomCleanupTimeouts' = scheduleRoomCleanup(roomCleanupTimeouts, roomCode)
            /\ UNCHANGED <<rooms, socketToPlayer>>
    /\ UNCHANGED <<byId, now, nanoid, limiter>>

\* Date.now(): the wall clock moves on by one of the amounts in steps; a due
\* setTimeout callback runs before the clock moves past it
AdvanceTime(steps, limit) ==
    /\ \E d \in steps : now + d <= limit /\ now' = now + d
    /\ \A rc \in DOMAIN roomCleanupTimeouts : roomCleanupTimeouts[rc] > now
    /\ UNCHANGED <<rooms, socketToPlayer, roomCleanupTimeouts, byId, nanoid, limiter>>

----------------------------------------------------------------------------
(* Deck engine and turn timer *)

effectiveOrder(room) ==
    IF Len(room.settings.customDeckOrder) > 0 THEN room.settings.customDeckOrder
    ELSE room.deckOrder

\* pickWeightedNextCard: const recent = room.discard.slice(-8)
RECENT_WINDOW == 8

recentDiscard(room) ==
    SubSeq(room.discard, Max(1, Len(room.discard) - RECENT_WINDOW + 1), Len(room.discard))

\* pickWeightedNextCard: counts[type], the cards of the type among recent
recentCount(room, type) ==
    LET recent == recentDiscard(room)
    IN  Cardinality({i \in 1..Len(recent) : recent[i] \in byId /\ Card(recent[i]).type = type})

\* pickWeightedNextCard: base[c.type] ?? 1.0, in tenths
baseWeight(type, safeMode) ==
    CASE type = "forfeit" -> IF safeMode THEN 7 ELSE 10
      [] type = "rule" -> 11
      [] type = "role" -> 10
      [] type = "curse" -> 9
      [] type = "event" -> 10
      [] type = "joker" -> 9
      [] type = "setup" -> 8
      [] type = "endgame" -> 6
      [] OTHER -> 10

\* pickWeightedNextCard: forfeitPenalty, in tenths
forfeitPenalty(forfeits) == IF forfeits >= 4 THEN 5 ELSE IF forfeits >= 3 THEN 7 ELSE 10

\* Math.max(0.05, w), in millionths
WEIGHT_FLOOR == 50000

\* a bug to tell from weightOf: the recently discarded cards are not held back
weightOf_recentIgnored(type, safeMode, isRecent, forfeits, sameType) ==
    Max(WEIGHT_FLOOR,
        baseWeight(type, safeMode) * 100
            * (IF type = "forfeit" THEN forfeitPenalty(forfeits) ELSE 10)
            * (IF sameType >= 2 THEN 65 ELSE 100))

\* pickWeightedNextCard: the weight of a candidate of the given type, in
\* millionths: base (tenths) * 0.25 if recently discarded (hundredths) *
\* forfeit penalty (tenths) * 0.65 if two of the type are recent (hundredths)
weightOf(type, safeMode, isRecent, forfeits, sameType) ==
    Max(WEIGHT_FLOOR,
        baseWeight(type, safeMode)
            * (IF isRecent THEN 25 ELSE 100)
            * (IF type = "forfeit" THEN forfeitPenalty(forfeits) ELSE 10)
            * (IF sameType >= 2 THEN 65 ELSE 100))

\* pickWeightedNextCard: the weight of candidate cardId in room
cardWeight(room, cardId) ==
    weightOf(Card(cardId).type, room.settings.safeMode,
             cardId \in SeqToSet(recentDiscard(room)),
             recentCount(room, "forfeit"), recentCount(room, Card(cardId).type))

\* pickWeightedNextCard: the roulette over Math.random() can stop at any
\* candidate of positive weight (every weight is >= 0.05); without
\* candidates the result is undefined ("")
pickWeightedNextCard(room) ==
    LET InCatalog(id) == id \in byId
        candidates == Filter(effectiveOrder(room), InCatalog)
    IN  IF candidates = <<>> THEN {""}
        ELSE {id \in SeqToSet(candidates) : cardWeight(room, id) > 0}

\* a bug to tell from drawnCardIds: the sequential draw stays on the last
\* card instead of wrapping around
drawnCardIds_noWrap(room) ==
    LET order == effectiveOrder(room)
    IN  IF room.settings.dynamicWeighting THEN pickWeightedNextCard(room)
        ELSE {order[Min(room.drawIndex, Len(order) - 1) + 1]}

\* the card ids turn:draw can come up with
drawnCardIds(room) ==
    LET order == effectiveOrder(room)
    IN  IF room.settings.dynamicWeighting THEN pickWeightedNextCard(room)
        ELSE {order[(room.drawIndex % Len(order)) + 1]}

longRoundHints ==
    {"go around", "truth circle", "confessional", "vote", "category",
     "speed round", "draw nonstop", "for one round"}

kindSeconds(kind) ==
    CASE kind \in {"chooseTarget", "rockPaperScissors"} -> 10
      [] kind = "chooseNumber" -> 10
      [] kind = "chooseTargetAndNumber" -> 20
      [] kind = "chooseTwoTargets" -> 25
      [] OTHER -> 0

\* a bug to tell from computeTimer: an event card adds 60 seconds to the base
computeTimer_eventAdds60(card) ==
    IF card.kind = "createRuleText"
    THEN [enabled |-> FALSE, seconds |-> 0]
    ELSE IF card.txtHas \cap longRoundHints # {}
    THEN [enabled |-> FALSE, seconds |-> 0]
    ELSE LET base == IF card.type = "event" THEN 90
                     ELSE IF card.type \in {"rule", "role", "curse", "joker"} THEN 45
                     ELSE 30
         IN  [enabled |-> TRUE,
              seconds |-> Max(20, Min(90, base + kindSeconds(card.kind)))]

computeTimer(card) ==
    IF card.kind = "createRuleText"
    THEN [enabled |-> FALSE, seconds |-> 0]
    ELSE IF card.txtHas \cap longRoundHints # {}
    THEN [enabled |-> FALSE, seconds |-> 0]
    ELSE LET base == IF card.type = "event" THEN 60
                     ELSE IF card.type \in {"rule", "role", "curse", "joker"} THEN 45
                     ELSE 30
         IN  [enabled |-> TRUE,
              seconds |-> Max(20, Min(90, base + kindSeconds(card.kind)))]

\* a handler's outcome: the room it leaves, the answers passed to cb, the
\* broadcasts, whether updateRoomActivity ran, and the ack ids it generated
Outcome(room, cb, emits, activity, acks) ==
    [room |-> room, cb |-> cb, emits |-> emits, activity |-> activity, acks |-> acks]

\* a bug to tell from Rejected: the refusal is written to the room's log
Rejected_logged(room, error) ==
    Outcome([room EXCEPT !.log = Append(@, error)], <<error>>, <<>>, FALSE, 0)

\* return cb?.({ error }): the handler stops before it has changed anything
Rejected(room, error) == Outcome(room, <<error>>, <<>>, FALSE, 0)

Ev(name) == [ev |-> name, playerId |-> NoId]
TurnChanged(playerId) == [ev |-> "turn:changed", playerId |-> playerId]

\* a bug to tell from turn_draw: a card is drawn while an interaction runs
turn_draw_duringInteraction(room, playerId, cardId) ==
    LET turn == assertIsTurnPlayer(room, playerId)
        r1 == [room EXCEPT !.drawIndex = @ + 1,
                           !.discard = Append(@, cardId),
                           !.currentDraw = Some([cardId |-> cardId, drawnByPlayerId |-> playerId]),
                           !.afkNudged = Null]
    IN  IF ~turn.ok THEN Rejected(room, turn.error)
        ELSE IF room.currentDraw # Null THEN Rejected(room, "UNRESOLVED_CARD")
        ELSE IF cardId \notin byId THEN Rejected(room, "CARD_NOT_FOUND")
        ELSE Outcome(pushLog(r1, "drew"), <<"ok">>,
                     <<Ev("card:drawn"), Ev("room:state")>>, TRUE, 0)

\* socket.on("turn:draw"), for a known room; cardId is the card the deck
\* engine comes up with
turn_draw(room, playerId, cardId) ==
    LET turn == assertIsTurnPlayer(room, playerId)
        t == computeTimer(Card(cardId))
        r1 == [room EXCEPT !.drawIndex = @ + 1,
                           !.discard = Append(@, cardId),
                           !.currentDraw = Some([cardId |-> cardId, drawnByPlayerId |-> playerId]),
                           !.afkNudged = Null]
        r2 == pushLog(r1, "drew")
        r3 == [r2 EXCEPT !.turnTimer =
                  IF t.enabled
                  THEN Some([enabled |-> TRUE, secondsTotal |-> t.seconds, endsAt |-> now + t.seconds])
                  ELSE Some([enabled |-> FALSE, secondsTotal |-> 0, endsAt |-> 0])]
    IN  IF ~room.started THEN Rejected(room, "GAME_NOT_STARTED")
        ELSE IF room.paused THEN Rejected(room, "PAUSED")
        ELSE IF ~turn.ok THEN Rejected(room, turn.error)
        ELSE IF room.currentDraw # Null THEN Rejected(room, "UNRESOLVED_CARD")
        ELSE IF room.interaction # Null THEN Rejected(room, "INTERACTION_ACTIVE")
        ELSE IF cardId \notin byId THEN Rejected(room, "CARD_NOT_FOUND")
        ELSE Outcome(r3, <<"ok">>, <<Ev("card:drawn"), Ev("room:state")>>, TRUE, 0)

----------------------------------------------------------------------------
(* Card resolution engine *)

\* bump of applyDrinkStats
bump(stats, pid, field, n) ==
    IF pid = NoId THEN stats
    ELSE LET cur == IF pid \in DOMAIN stats THEN stats[pid] ELSE [given |-> 0, taken |-> 0]
         IN  Put(stats, pid, [cur EXCEPT ![field] = @ + n])

\* Math.max(1, Math.round(baseN * safe)), safe = 0.5 under safe mode
drinkUnits(room, baseN) ==
    Max(1, IF room.settings.safeMode THEN (baseN + 1) \div 2 ELSE baseN)

applyDrinkStats(room, card, drawerId, resolution) ==
    LET stats == room.drinkStats
        firstOr1 == IF card.firstNumber # 0 THEN card.firstNumber ELSE 1
    IN  IF "drink" \in card.txtHas /\ card.kind \in {"chooseTarget", "chooseTargetAndNumber"}
        THEN LET baseN == IF card.kind = "chooseTargetAndNumber"
                          THEN resolution.numberValue ELSE firstOr1
                 n == drinkUnits(room, baseN)
             IN  [room EXCEPT !.drinkStats =
                    bump(bump(stats, drawerId, "given", n), resolution.targetPlayerId, "taken", n)]
        ELSE IF "drink" \in card.txtHas /\ card.kind = "chooseTwoTargets"
        THEN LET n == drinkUnits(room, firstOr1)
             IN  [room EXCEPT !.drinkStats =
                    bump(bump(bump(stats, drawerId, "given", n * 2),
                              resolution.targetPlayerId, "taken", n),
                         resolution.targetPlayerId2, "taken", n)]
        ELSE IF "take" \in card.txtHas /\ "drink" \in card.txtHas /\ card.firstNumber # 0
        THEN [room EXCEPT !.drinkStats =
                 bump(stats, drawerId, "taken", drinkUnits(room, card.firstNumber))]
        ELSE room

requiresAck(card) ==
    card.kind \in {"chooseTarget", "chooseTwoTargets", "chooseTargetAndNumber"}

createAck(ackId, card, createdBy, assignedTo, targets) ==
    [ackId |-> ackId, createdAt |-> now, cardId |-> card.id,
     createdByPlayerId |-> createdBy, assignedToPlayerId |-> assignedTo,
     status |-> "pending", targets |-> targets]

\* applyCard: the room after the card's effect (the returned message is not modelled)
applyCard(room, card, byPlayerId, resolution) ==
    LET curses == room.activeEffects.cursesByPlayerId
        from == resolution.targetPlayerId
        to == resolution.targetPlayerId2
    IN  IF "cleanse curse" \in card.titleHas
        THEN [room EXCEPT !.activeEffects.cursesByPlayerId = Delete(@, from)]
        ELSE IF "reset roles" \in card.titleHas
        THEN [room EXCEPT !.activeEffects.rolesByPlayerId = <<>>]
        ELSE IF "transfer curse" \in card.titleHas
        THEN IF from \notin DOMAIN curses THEN room
             ELSE [room EXCEPT !.activeEffects.cursesByPlayerId =
                      Delete(Put(curses, to, curses[from]), from)]
        ELSE IF card.type = "rule"
        THEN IF card.kind = "createRuleText"
             THEN [room EXCEPT !.activeEffects.rules =
                      Append(@, [text |-> trim(resolution.ruleText), createdBy |-> byPlayerId])]
             ELSE IF {"end all rules", "end rules"} \cap card.titleHas # {}
             THEN [room EXCEPT !.activeEffects.rules = <<>>]
             ELSE [room EXCEPT !.activeEffects.rules =
                      Append(@, [text |-> <<"b", "o", "d", "y">>, createdBy |-> byPlayerId])]
        ELSE IF card.type = "role"
        THEN [room EXCEPT !.activeEffects.rolesByPlayerId = Put(@, from, card.id)]
        ELSE IF card.type = "curse"
        THEN [room EXCEPT !.activeEffects.cursesByPlayerId = Put(@, from, card.id)]
        ELSE IF card.type \in {"event", "joker"}
        THEN [room EXCEPT !.activeEffects.currentEvent = Some(card.id)]
        ELSE room


\* a bug to tell from launchInteraction: the drawn card stays in place
launchInteraction_keepsDraw(room, inter, tag) ==
    pushLog([room EXCEPT !.interaction = Some(inter)], tag)

\* room.currentDraw = null; room.turnTimer = null; room.interaction = {...};
\* pushLog(...) of startInteractive
launchInteraction(room, inter, tag) ==
    pushLog([room EXCEPT !.currentDraw = Null, !.turnTimer = Null,
                         !.interaction = Some(inter)], tag)

\* startInteractive of card:resolve.  launched: the value the handler tests
\* (true only after a launch; an error return hands back cb's result, which
\* is undefined); cb: the answers it passed to cb
startInteractive(room, card, playerId, resolution) ==
    LET opponentId == resolution.targetPlayerId
        launch(inter, tag) == launchInteraction(room, inter, tag)
    IN  IF card.kind = "rockPaperScissors"
        THEN IF opponentId = NoId
             THEN [launched |-> FALSE, cb |-> <<"MISSING_TARGET">>, room |-> room]
             ELSE IF opponentId \notin ActiveIds(room)
             THEN [launched |-> FALSE, cb |-> <<"INVALID_TARGET">>, room |-> room]
             ELSE IF opponentId = playerId
             THEN [launched |-> FALSE, cb |-> <<"INVALID_TARGET">>, room |-> room]
             ELSE [launched |-> TRUE, cb |-> <<"ok">>,
                   room |-> launch([kind |-> "rps", cardId |-> card.id,
                                    startedByPlayerId |-> playerId,
                                    opponentPlayerId |-> opponentId,
                                    createdAt |-> now, expiresAt |-> now + RPS_EXPIRY,
                                    choices |-> <<>>, votes |-> <<>>],
                                   "rps started")]
        ELSE IF card.kind = "wouldYouRather"
        THEN [launched |-> TRUE, cb |-> <<"ok">>,
              room |-> launch([kind |-> "wyr", cardId |-> card.id,
                               startedByPlayerId |-> playerId,
                               opponentPlayerId |-> NoId,
                               createdAt |-> now, expiresAt |-> now + WYR_EXPIRY,
                               choices |-> <<>>, votes |-> <<>>],
                              "wyr started")]
        ELSE [launched |-> FALSE, cb |-> <<>>, room |-> room]

\* the receipts card:resolve creates; ackBase is the number of ack ids
\* generated before
newAcks(card, playerId, resolution, ackBase) ==
    LET t1 == resolution.targetPlayerId
        t2 == resolution.targetPlayerId2
    IN  IF card.kind \in {"chooseTarget", "chooseTargetAndNumber"}
        THEN <<createAck(ackBase + 1, card, playerId, t1, <<t1>>)>>
        ELSE IF card.kind = "chooseTwoTargets"
        THEN <<createAck(ackBase + 1, card, playerId, t1, <<t1, t2>>),
               createAck(ackBase + 2, card, playerId, t2, <<t1, t2>>)>>
        ELSE <<>>

\* socket.on("card:resolve"), for a known room
card_resolve(room, playerId, cardId, resolution, ackBase) ==
    LET turn == assertIsTurnPlayer(room, playerId)
        card == Card(cardId)
        si == startInteractive(room, card, playerId, resolution)
        r1 == applyCard(room, card, playerId, resolution)
        r2 == applyDrinkStats(r1, card, playerId, resolution)
        r3 == pushLog(r2, "resolved")
        r4 == [r3 EXCEPT !.currentDraw = Null, !.turnTimer = Null]
        acks == IF requiresAck(card) THEN newAcks(card, playerId, resolution, ackBase) ELSE <<>>
        r5 == IF requiresAck(card)
              THEN [r4 EXCEPT !.pendingAcks = @ \o acks, !.awaitingAcksForCardId = Null]
              ELSE r4
        r6 == nextTurn(r5)
    IN  IF ~turn.ok THEN Rejected(room, turn.error)
        ELSE IF room.currentDraw = Null THEN Rejected(room, "NO_ACTIVE_DRAW")
        ELSE IF room.currentDraw[1].cardId # cardId THEN Rejected(room, "CARD_MISMATCH")
        ELSE IF room.currentDraw[1].drawnByPlayerId # playerId THEN Rejected(room, "NOT_DRAWER")
        ELSE IF cardId \notin byId THEN Rejected(room, "CARD_NOT_FOUND")
        ELSE IF card.kind \in {"chooseTarget", "rockPaperScissors"}
                /\ resolution.targetPlayerId = NoId
        THEN Rejected(room, "MISSING_TARGET")
        ELSE IF card.kind = "chooseTwoTargets"
                /\ (resolution.targetPlayerId = NoId \/ resolution.targetPlayerId2 = NoId)
        THEN Rejected(room, "MISSING_TARGETS")
        ELSE IF card.kind = "createRuleText" /\ trim(resolution.ruleText) = <<>>
        THEN Rejected(room, "MISSING_RULE_TEXT")
        ELSE IF si.launched
        THEN Outcome(si.room, si.cb, <<Ev("effect:applied"), Ev("room:state")>>, TRUE, 0)
        ELSE Outcome(r6, si.cb \o <<"ok">>,
                     <<Ev("effect:applied"), TurnChanged(nextTurnPlayerId(r5)), Ev("room:state")>>,
                     TRUE, Len(acks))

----------------------------------------------------------------------------
(* Interaction engine *)

\* a bug to tell from bumpTaken: the drinks are counted as given
bumpTaken_asGiven(room, pid, n) ==
    LET r == ensurePlayerStats(room, pid)
    IN  [r EXCEPT !.drinkStats[pid].given = @ + n]

bumpTaken(room, pid, n) ==
    LET r == ensurePlayerStats(room, pid)
    IN  [r EXCEPT !.drinkStats[pid].taken = @ + n]

RECURSIVE bumpTakenAll(_, _, _)
bumpTakenAll(room, pids, n) ==
    IF pids = <<>> THEN room
    ELSE bumpTakenAll(bumpTaken(room, Head(pids), n), Tail(pids), n)

playerIds(list) == [i \in 1..Len(list) |-> list[i].playerId]

\* a bug to tell from wyrDrinkers: the larger side drinks
wyrDrinkers_majority(ap, votesA, votesB) ==
    IF Len(votesA) = Len(votesB) THEN ap
    ELSE IF Len(votesA) > Len(votesB) THEN votesA
    ELSE votesB

\* who finalizeWouldYouRather makes drink: everyone on a tie, else the
\* smaller side
wyrDrinkers(ap, votesA, votesB) ==
    IF Len(votesA) = Len(votesB) THEN ap
    ELSE IF Len(votesA) < Len(votesB) THEN votesA
    ELSE votesB

\* a bug to tell from finalizeWouldYouRather: the vote stays open after its
\* result
finalizeWouldYouRather_staysOpen(room) ==
    LET inter == room.interaction[1]
        ap == playerIds(activePlayers(room))
        VotedA(pid) == pid \in DOMAIN inter.votes /\ inter.votes[pid] = "A"
        VotedB(pid) == pid \in DOMAIN inter.votes /\ inter.votes[pid] = "B"
        votesA == Filter(ap, VotedA)
        votesB == Filter(ap, VotedB)
        r1 == bumpTakenAll(room, wyrDrinkers(ap, votesA, votesB), 1)
        r2 == pushLog(r1, "wyr result")
    IN  [room |-> nextTurn(r2),
         emits |-> <<Ev("effect:applied"), TurnChanged(nextTurnPlayerId(r2)), Ev("room:state")>>]

\* finalizeWouldYouRather, for a room whose interaction is a group vote
finalizeWouldYouRather(room) ==
    LET inter == room.interaction[1]
        ap == playerIds(activePlayers(room))
        VotedA(pid) == pid \in DOMAIN inter.votes /\ inter.votes[pid] = "A"
        VotedB(pid) == pid \in DOMAIN inter.votes /\ inter.votes[pid] = "B"
        votesA == Filter(ap, VotedA)
        votesB == Filter(ap, VotedB)
        r1 == bumpTakenAll(room, wyrDrinkers(ap, votesA, votesB), 1)
        r2 == pushLog(r1, "wyr result")
        r3 == [r2 EXCEPT !.interaction = Null]
    IN  [room |-> nextTurn(r3),
         emits |-> <<Ev("effect:applied"), TurnChanged(nextTurnPlayerId(r3)), Ev("room:state")>>]

\* a bug to tell from beats: rock and paper exchanged
beats_rockBeatsPaper(c) ==
    CASE c = "rock" -> "paper"
      [] c = "paper" -> "scissors"
      [] c = "scissors" -> "rock"
      [] OTHER -> ""

\* const beats = { rock: "scissors", paper: "rock", scissors: "paper" }
beats(c) ==
    CASE c = "rock" -> "scissors"
      [] c = "paper" -> "rock"
      [] c = "scissors" -> "paper"
      [] OTHER -> ""

\* a bug to tell from interaction_rps_choose: a participant's first choice
\* stands
interaction_rps_choose_firstStands(room, playerId, choice) ==
    IF room.interaction = Null \/ room.interaction[1].kind # "rps"
    THEN Rejected(room, "NO_INTERACTION")
    ELSE
    LET a == room.interaction[1].startedByPlayerId
        b == room.interaction[1].opponentPlayerId
        r1 == IF playerId \in DOMAIN room.interaction[1].choices THEN room
              ELSE [room EXCEPT !.interaction[1].choices = Put(@, playerId, choice)]
        choices == r1.interaction[1].choices
        both == a \in DOMAIN choices /\ b \in DOMAIN choices
        r2 == IF choices[a] = choices[b] THEN bumpTaken(bumpTaken(r1, a, 1), b, 1)
              ELSE IF beats(choices[a]) = choices[b] THEN bumpTaken(r1, b, 1)
              ELSE bumpTaken(r1, a, 1)
        r3 == pushLog(r2, "rps result")
        r4 == [r3 EXCEPT !.interaction = Null]
    IN  IF playerId # a /\ playerId # b THEN Rejected(room, "NOT_PARTICIPANT")
        ELSE IF both
        THEN Outcome(nextTurn(r4), <<"ok">>,
                     <<Ev("effect:applied"), TurnChanged(nextTurnPlayerId(r4)), Ev("room:state")>>,
                     TRUE, 0)
        ELSE Outcome(r1, <<"ok">>, <<Ev("room:state")>>, TRUE, 0)

\* socket.on("interaction:rps:choose"), for a known room
interaction_rps_choose(room, playerId, choice) ==
    IF room.interaction = Null \/ room.interaction[1].kind # "rps"
    THEN Rejected(room, "NO_INTERACTION")
    ELSE
    LET a == room.interaction[1].startedByPlayerId
        b == room.interaction[1].opponentPlayerId
        r1 == [room EXCEPT !.interaction[1].choices = Put(@, playerId, choice)]
        choices == r1.interaction[1].choices
        both == a \in DOMAIN choices /\ b \in DOMAIN choices
        r2 == IF choices[a] = choices[b] THEN bumpTaken(bumpTaken(r1, a, 1), b, 1)
              ELSE IF beats(choices[a]) = choices[b] THEN bumpTaken(r1, b, 1)
              ELSE bumpTaken(r1, a, 1)
        r3 == pushLog(r2, "rps result")
        r4 == [r3 EXCEPT !.interaction = Null]
    IN  IF playerId # a /\ playerId # b THEN Rejected(room, "NOT_PARTICIPANT")
        ELSE IF both
        THEN Outcome(nextTurn(r4), <<"ok">>,
                     <<Ev("effect:applied"), TurnChanged(nextTurnPlayerId(r4)), Ev("room:state")>>,
                     TRUE, 0)
        ELSE Outcome(r1, <<"ok">>, <<Ev("room:state")>>, TRUE, 0)

\* socket.on("interaction:wyr:vote"), for a known room
interaction_wyr_vote(room, playerId, vote) ==
    IF room.interaction = Null \/ room.interaction[1].kind # "wyr"
    THEN Rejected(room, "NO_INTERACTION")
    ELSE
    LET ap == playerIds(activePlayers(room))
        r1 == [room EXCEPT !.interaction[1].votes = Put(@, playerId, vote)]
        Voted(pid) == pid \in DOMAIN r1.interaction[1].votes
        votedCount == Len(Filter(ap, Voted))
        fin == finalizeWouldYouRather(r1)
    IN  IF playerId \notin SeqToSet(ap) THEN Rejected(room, "SPECTATORS_CANNOT_VOTE")
        ELSE IF votedCount >= Len(ap)
        THEN Outcome(fin.room, <<"ok">>, fin.emits \o <<Ev("room:state")>>, TRUE, 0)
        ELSE Outcome(r1, <<"ok">>, <<Ev("room:state")>>, TRUE, 0)

----------------------------------------------------------------------------
(* Confirmation subsystem, nudge, settings *)

\* socket.on("ack:confirm"), for a known room
ack_confirm(room, playerId, ackId) ==
    LET Is(a) == a.ackId = ackId
        NotConfirmed(a) == a.status # "confirmed"
        ack == Find(room.pendingAcks, Is)
        marked == [i \in 1..Len(room.pendingAcks) |->
                      IF room.pendingAcks[i].ackId = ackId
                      THEN [room.pendingAcks[i] EXCEPT !.status = "confirmed"]
                      ELSE room.pendingAcks[i]]
    IN  IF ack = Null THEN Rejected(room, "ACK_NOT_FOUND")
        ELSE IF ack[1].assignedToPlayerId # playerId THEN Rejected(room, "NOT_YOUR_ACK")
        ELSE IF ack[1].status = "confirmed" THEN Outcome(room, <<"ok">>, <<>>, FALSE, 0)
        ELSE Outcome([room EXCEPT !.pendingAcks = Filter(marked, NotConfirmed)],
                     <<"ok">>, <<Ev("effect:applied"), Ev("room:state")>>, TRUE, 0)

\* socket.on("turn:nudge"), for a known room
turn_nudge(room) ==
    Outcome(pushLog(room, "nudged"), <<"ok">>,
            <<Ev("player:nudged"), Ev("room:state")>>, TRUE, 0)

\* socket.on("room:updateSettings"), for a known room: {...room.settings, ...patch}
room_updateSettings(room, playerId, patch) ==
    IF ~isHost(room, playerId) THEN Rejected(room, "NOT_HOST")
    ELSE Outcome(pushLog([room EXCEPT !.settings = patch @@ room.settings], "settings"),
                 <<"ok">>, <<Ev("room:state")>>, TRUE, 0)

\* a bug to tell from sanitizeDeckOrder: the order is taken as it comes
sanitizeDeckOrder_unfiltered(order) == order

sanitizeDeckOrder(order) ==
    LET Known(id) == id \in SeqToSet(UltimateDeck) IN Filter(order, Known)

\* a bug to tell from room_setDeck: the timer of the abandoned draw is kept
room_setDeck_keepsTimer(room, playerId, deckOrder) ==
    LET clean == sanitizeDeckOrder(deckOrder)
        r1 == [room EXCEPT !.settings.customDeckOrder = clean,
                           !.drawIndex = 0, !.discard = <<>>,
                           !.currentDraw = Null]
    IN  IF ~isHost(room, playerId) THEN Rejected(room, "NOT_HOST")
        ELSE IF Len(clean) = 0 THEN Rejected(room, "EMPTY_DECK")
        ELSE Outcome(pushLog(r1, "deck"), <<"ok">>, <<Ev("room:state")>>, TRUE, 0)

\* socket.on("room:setDeck"), for a known room
room_setDeck(room, playerId, deckOrder) ==
    LET clean == sanitizeDeckOrder(deckOrder)
        r1 == [room EXCEPT !.settings.customDeckOrder = clean,
                           !.drawIndex = 0, !.discard = <<>>,
                           !.currentDraw = Null, !.turnTimer = Null]
    IN  IF ~isHost(room, playerId) THEN Rejected(room, "NOT_HOST")
        ELSE IF Len(clean) = 0 THEN Rejected(room, "EMPTY_DECK")
        ELSE Outcome(pushLog(r1, "deck"), <<"ok">>, <<Ev("room:state")>>, TRUE, 0)


----------------------------------------------------------------------------
(* Sweep loop: the body of the setInterval callback for one room *)

\* a bug to tell from timeUp: the expired draw and its timer stay in place
timeUp_keepsDraw(room) ==
    LET pid == room.currentDraw[1].drawnByPlayerId
    IN  pushLog([room EXCEPT !.drinkStats = bump(@, pid, "taken", 1)], "time up")

\* the timer has run out on a drawn card: the drawer takes 1, the draw ends
timeUp(room) ==
    LET pid == room.currentDraw[1].drawnByPlayerId
        t0 == [room EXCEPT !.drinkStats = bump(@, pid, "taken", 1)]
    IN  [pushLog(t0, "time up") EXCEPT !.currentDraw = Null, !.turnTimer = Null]

\* a bug to tell from sweepRoom: a disabled timer is cleared by the tick
sweepRoom_clearsDisabled(room, t) ==
    LET inter == room.interaction[1]
        a == inter.startedByPlayerId
        b == inter.opponentPlayerId
        ca == a \in DOMAIN inter.choices
        cbChoice == b \in DOMAIN inter.choices
        e0 == ensurePlayerStats(ensurePlayerStats(room, a), b)
        e1 == IF ca /\ ~cbChoice THEN bumpTaken(e0, b, 1)
              ELSE IF ~ca /\ cbChoice THEN bumpTaken(e0, a, 1)
              ELSE bumpTaken(bumpTaken(e0, a, 1), b, 1)
        e2 == [pushLog(e1, "rps timeout") EXCEPT !.interaction = Null]
        timer == room.turnTimer[1]
        draw == room.currentDraw[1]
        turnKey == <<draw.cardId, draw.drawnByPlayerId, room.turnIndex>>
        t1 == timeUp(room)
    IN  IF room.interaction # Null /\ inter.expiresAt <= t /\ inter.kind = "rps"
        THEN [room |-> nextTurn(e2),
              emits |-> <<Ev("effect:applied"), TurnChanged(nextTurnPlayerId(e2)), Ev("room:state")>>]
        ELSE IF room.interaction # Null /\ inter.expiresAt <= t /\ inter.kind = "wyr"
        THEN finalizeWouldYouRather(room)
        ELSE IF ~room.started \/ room.paused THEN [room |-> room, emits |-> <<>>]
        ELSE IF room.turnTimer = Null THEN [room |-> room, emits |-> <<>>]
        ELSE IF ~timer.enabled
        THEN [room |-> [room EXCEPT !.turnTimer = Null], emits |-> <<Ev("room:state")>>]
        ELSE IF timer.endsAt > t
        THEN IF room.currentDraw # Null /\ timer.endsAt - t <= SWEEP_NUDGE_REMAINING
                /\ (room.afkNudged = Null \/ room.afkNudged[1].turnKey # turnKey)
             THEN [room |-> pushLog([room EXCEPT !.afkNudged =
                                        Some([turnKey |-> turnKey, ts |-> t])], "afk nudge"),
                   emits |-> <<Ev("player:nudged"), Ev("room:state")>>]
             ELSE [room |-> room, emits |-> <<>>]
        ELSE IF room.currentDraw # Null
        THEN [room |-> nextTurn(t1),
              emits |-> <<Ev("effect:applied"), TurnChanged(nextTurnPlayerId(t1)), Ev("room:state")>>]
        ELSE [room |-> [room EXCEPT !.turnTimer = Null], emits |-> <<Ev("room:state")>>]

\* a bug to tell from sweepRoom: the reminder is sent on every tick of the
\* last 15 seconds
sweepRoom_nudgesEveryTick(room, t) ==
    LET inter == room.interaction[1]
        a == inter.startedByPlayerId
        b == inter.opponentPlayerId
        ca == a \in DOMAIN inter.choices
        cbChoice == b \in DOMAIN inter.choices
        e0 == ensurePlayerStats(ensurePlayerStats(room, a), b)
        e1 == IF ca /\ ~cbChoice THEN bumpTaken(e0, b, 1)
              ELSE IF ~ca /\ cbChoice THEN bumpTaken(e0, a, 1)
              ELSE bumpTaken(bumpTaken(e0, a, 1), b, 1)
        e2 == [pushLog(e1, "rps timeout") EXCEPT !.interaction = Null]
        timer == room.turnTimer[1]
        draw == room.currentDraw[1]
        turnKey == <<draw.cardId, draw.drawnByPlayerId, room.turnIndex>>
        t1 == timeUp(room)
    IN  IF room.interaction # Null /\ inter.expiresAt <= t /\ inter.kind = "rps"
        THEN [room |-> nextTurn(e2),
              emits |-> <<Ev("effect:applied"), TurnChanged(nextTurnPlayerId(e2)), Ev("room:state")>>]
        ELSE IF room.interaction # Null /\ inter.expiresAt <= t /\ inter.kind = "wyr"
        THEN finalizeWouldYouRather(room)
        ELSE IF ~room.started \/ room.paused THEN [room |-> room, emits |-> <<>>]
        ELSE IF room.turnTimer = Null \/ ~timer.enabled THEN [room |-> room, emits |-> <<>>]
        ELSE IF timer.endsAt > t
        THEN IF room.currentDraw # Null /\ timer.endsAt - t <= SWEEP_NUDGE_REMAINING
             THEN [room |-> pushLog([room EXCEPT !.afkNudged =
                                        Some([turnKey |-> turnKey, ts |-> t])], "afk nudge"),
                   emits |-> <<Ev("player:nudged"), Ev("room:state")>>]
             ELSE [room |-> room, emits |-> <<>>]
        ELSE IF room.currentDraw # Null
        THEN [room |-> nextTurn(t1),
              emits |-> <<Ev("effect:applied"), TurnChanged(nextTurnPlayerId(t1)), Ev("room:state")>>]
        ELSE [room |-> [room EXCEPT !.turnTimer = Null], emits |-> <<Ev("room:state")>>]

\* the loop body for one room, at time t = Date.now()
sweepRoom(room, t) ==
    LET inter == room.interaction[1]
        a == inter.startedByPlayerId
        b == inter.opponentPlayerId
        ca == a \in DOMAIN inter.choices
        cbChoice == b \in DOMAIN inter.choices
        e0 == ensurePlayerStats(ensurePlayerStats(room, a), b)
        e1 == IF ca /\ ~cbChoice THEN bumpTaken(e0, b, 1)
              ELSE IF ~ca /\ cbChoice THEN bumpTaken(e0, a, 1)
              ELSE bumpTaken(bumpTaken(e0, a, 1), b, 1)
        e2 == [pushLog(e1, "rps timeout") EXCEPT !.interaction = Null]
        timer == room.turnTimer[1]
        draw == room.currentDraw[1]
        turnKey == <<draw.cardId, draw.drawnByPlayerId, room.turnIndex>>
        t1 == timeUp(room)
    IN  IF room.interaction # Null /\ inter.expiresAt <= t /\ inter.kind = "rps"
        THEN [room |-> nextTurn(e2),
              emits |-> <<Ev("effect:applied"), TurnChanged(nextTurnPlayerId(e2)), Ev("room:state")>>]
        ELSE IF room.interaction # Null /\ inter.expiresAt <= t /\ inter.kind = "wyr"
        THEN finalizeWouldYouRather(room)
        ELSE IF ~room.started \/ room.paused THEN [room |-> room, emits |-> <<>>]
        ELSE IF room.turnTimer = Null \/ ~timer.enabled THEN [room |-> room, emits |-> <<>>]
        ELSE IF timer.endsAt > t
        THEN IF room.currentDraw # Null /\ timer.endsAt - t <= SWEEP_NUDGE_REMAINING
                /\ (room.afkNudged = Null \/ room.afkNudged[1].turnKey # turnKey)
             THEN [room |-> pushLog([room EXCEPT !.afkNudged =
                                        Some([turnKey |-> turnKey, ts |-> t])], "afk nudge"),
                   emits |-> <<Ev("player:nudged"), Ev("room:state")>>]
             ELSE [room |-> room, emits |-> <<>>]
        ELSE IF room.currentDraw # Null
        THEN [room |-> nextTurn(t1),
              emits |-> <<Ev("effect:applied"), TurnChanged(nextTurnPlayerId(t1)), Ev("room:state")>>]
        ELSE [room |-> [room EXCEPT !.turnTimer = Null], emits |-> <<Ev("room:state")>>]

\* one run of the setInterval callback, over all rooms
SweepTick ==
    /\ rooms' = [rc \in DOMAIN rooms |-> sweepRoom(rooms[rc], now).room]
    /\ \A rc \in DOMAIN rooms : WithinLog(rooms'[rc])
    /\ UNCHANGED <<socketToPlayer, roomCleanupTimeouts, byId, now, nanoid, limiter>>

----------------------------------------------------------------------------
(* Admin namespace: admin:addCardsToRoom with cards saved by admin:saveCard *)

\* customDeckOrder <<>> stands for the absent field of a new room (the
\* requests modelled here never assign an empty array to it)
addCardsToRoom(room, cardsToAdd) ==
    pushLog([room EXCEPT !.settings.customDeckOrder = effectiveOrder(room) \o cardsToAdd],
            "cards added")

AdminAddCardsToRoom(roomCode, cardIds) ==
    /\ roomCode \in DOMAIN rooms
    /\ LET InCustom(id) == id \in SeqToSet(customCards) \cup SeqToSet(numberCards)
           cardsToAdd == Filter(cardIds, InCustom)
           r == addCardsToRoom(rooms[roomCode], cardsToAdd)
       IN  /\ Len(cardsToAdd) > 0
           /\ WithinLog(r)
           /\ rooms' = Put(rooms, roomCode, r)
           /\ byId' = byId \cup SeqToSet(cardsToAdd)
    /\ UNCHANGED <<socketToPlayer, roomCleanupTimeouts, now, nanoid, limiter>>

----------------------------------------------------------------------------
(* Requests of the game, as actions *)

\* a handler's outcome o installed in the registry (a request that leaves
\* everything as it was is a stuttering step)
Apply(roomCode, o) ==
    /\ o.activity \/ o.room # rooms[roomCode]
    /\ WithinLog(o.room)
    /\ nanoid.acks + o.acks <= MaxAcks
    /\ nanoid' = [nanoid EXCEPT !.acks = @ + o.acks]
    /\ IF o.activity
       THEN updateRoomActivity(roomCode, o.room)
       ELSE /\ rooms' = Put(rooms, roomCode, o.room)
            /\ UNCHANGED roomCleanupTimeouts
    /\ UNCHANGED <<socketToPlayer, byId, now, limiter>>

PlayerIds == 1..MaxMembers
TargetIds == 0..MaxMembers
RuleTexts == {<<>>, <<" ">>, <<"n", "o">>}
Resolutions ==
    [targetPlayerId : TargetIds, targetPlayerId2 : TargetIds,
     ruleText : {<<>>}, numberValue : {0}]
        \cup [targetPlayerId : {NoId}, targetPlayerId2 : {NoId},
              ruleText : RuleTexts, numberValue : {0}]
RpsChoices == {"rock", "paper", "scissors"}
Votes == {"A", "B"}
SettingsPatches == { [customDeckOrder |-> <<"zz9">>] }
DeckOrders == { <<>>, <<"zz9">>, <<"j2", "zz9", "f1">> }
\* the payloads of the card:resolve requests: one when no card is drawn
\* (the request is answered NO_ACTIVE_DRAW or a turn error whatever it carries)
resolutionsFor(room) ==
    IF room.currentDraw = Null
    THEN {[targetPlayerId |-> NoId, targetPlayerId2 |-> NoId,
           ruleText |-> <<>>, numberValue |-> 0]}
    ELSE Resolutions

\* the card ids a card:resolve request names: the drawn card or another one
resolveCardIds(room) ==
    {"f1"} \cup (IF room.currentDraw = Null THEN {} ELSE {room.currentDraw[1].cardId})

TurnDraw(roomCode, playerId) ==
    /\ roomCode \in DOMAIN rooms
    /\ \E cardId \in drawnCardIds(rooms[roomCode]) :
           Apply(roomCode, turn_draw(rooms[roomCode], playerId, cardId))

CardResolve(roomCode, playerId, cardId, resolution) ==
    /\ roomCode \in DOMAIN rooms
    /\ Apply(roomCode, card_resolve(rooms[roomCode], playerId, cardId, resolution, nanoid.acks))

RpsChoose(roomCode, playerId, choice) ==
    /\ roomCode \in DOMAIN rooms
    /\ Apply(roomCode, interaction_rps_choose(rooms[roomCode], playerId, choice))

WyrVote(roomCode, playerId, vote) ==
    /\ roomCode \in DOMAIN rooms
    /\ Apply(roomCode, interaction_wyr_vote(rooms[roomCode], playerId, vote))

AckConfirm(roomCode, playerId, ackId) ==
    /\ roomCode \in DOMAIN rooms
    /\ Apply(roomCode, ack_confirm(rooms[roomCode], playerId, ackId))

TurnNudge(roomCode) ==
    /\ roomCode \in DOMAIN rooms
    /\ Apply(roomCode, turn_nudge(rooms[roomCode]))

RoomUpdateSettings(roomCode, playerId, patch) ==
    /\ roomCode \in DOMAIN rooms
    /\ Apply(roomCode, room_updateSettings(rooms[roomCode], playerId, patch))

RoomSetDeck(roomCode, playerId, deckOrder) ==
    /\ roomCode \in DOMAIN rooms
    /\ Apply(roomCode, room_setDeck(rooms[roomCode], playerId, deckOrder))

----------------------------------------------------------------------------
(* The game: a room in play.  It starts in the lobby that room:create on   *)
(* socket s1, room:join on sockets s2 and s3 and admin:addCardsToRoom lead *)
(* to at time 0 (SpecLobby below reaches GameInit from Init).              *)

Lobby ==
    addCardsToRoom(
        joinRoom(joinRoom(pushLog(NewRoom("ROOM01", 1, "s1", guestName(1)), "created"),
                          2, "s2", FALSE, guestName(2)),
                 3, "s3", FALSE, guestName(3)),
        customCards)

GameInit ==
    /\ now = 0
    /\ rooms = ("ROOM01" :> Lobby)
    /\ socketToPlayer = ("s1" :> [roomCode |-> "ROOM01", playerId |-> 1])
                            @@ ("s2" :> [roomCode |-> "ROOM01", playerId |-> 2])
                            @@ ("s3" :> [roomCode |-> "ROOM01", playerId |-> 3])
    /\ roomCleanupTimeouts = ("ROOM01" :> ROOM_INACTIVE_TIMEOUT)
    /\ byId = SeqToSet(UltimateDeck) \cup SeqToSet(customCards)
    /\ nanoid = [codes |-> {"ROOM01"}, players |-> 3, acks |-> 0]
    /\ limiter = NoRequests

\* a turn timer or an interaction is running in some room
ClockRuns ==
    \E rc \in DOMAIN rooms : rooms[rc].turnTimer # Null \/ rooms[rc].interaction # Null

\* The game is played by the members of the lobby; the clock is followed
\* while a turn timer or an interaction runs (a request between two turns
\* is taken at the instant the previous turn ended).
Next ==
    \/ \E s \in SocketIds, rc \in RoomCodes, p \in PlayerIds : HostKick(s, rc, p)
    \/ \E rc \in RoomCodes, p \in PlayerIds : TurnDraw(rc, p)
    \/ \E rc \in DOMAIN rooms, p \in PlayerIds :
           \E c \in resolveCardIds(rooms[rc]), res \in resolutionsFor(rooms[rc]) :
               CardResolve(rc, p, c, res)
    \/ \E rc \in RoomCodes, p \in PlayerIds, ch \in RpsChoices : RpsChoose(rc, p, ch)
    \/ \E rc \in RoomCodes, p \in PlayerIds, v \in Votes : WyrVote(rc, p, v)
    \/ \E rc \in RoomCodes, p \in PlayerIds, a \in 1..MaxAcks : AckConfirm(rc, p, a)
    \/ \E rc \in RoomCodes, p \in PlayerIds, patch \in SettingsPatches :
           RoomUpdateSettings(rc, p, patch)
    \/ \E rc \in RoomCodes, p \in PlayerIds, d \in DeckOrders : RoomSetDeck(rc, p, d)
    \/ SweepTick
    \/ ClockRuns /\ AdvanceTime(TimeSteps, MaxTime)

Spec == GameInit /\ [][Next]_vars

----------------------------------------------------------------------------
(* The registry: members of the lobby come and go, the room is closed, and *)
(* the inactivity timeout runs.                                            *)

NextRegistry ==
    \/ \E s \in SocketIds \ DOMAIN socketToPlayer, rc \in RoomCodes, sp \in BOOLEAN :
           RoomJoin(s, rc, sp, guestName(nanoid.players + 1))
    \/ \E s \in SocketIds, rc \in RoomCodes, p \in PlayerIds : PlayerReconnect(s, rc, p)
    \/ \E s \in SocketIds : Disconnect(s)
    \/ \E s \in SocketIds, rc \in RoomCodes, p \in PlayerIds : HostKick(s, rc, p)
    \/ \E rc \in RoomCodes, p \in PlayerIds : AdminKickPlayer(rc, p)
    \/ \E s \in SocketIds, rc \in RoomCodes : HostCloseRoom(s, rc)
    \/ \E rc \in RoomCodes : AdminCloseRoom(rc)
    \/ \E rc \in RoomCodes : TurnNudge(rc)
    \/ \E rc \in RoomCodes : cleanupInactiveRoom(rc)
    \/ AdvanceTime(IdleSteps, MaxIdle)

SpecRegistry == GameInit /\ [][NextRegistry]_vars

----------------------------------------------------------------------------
(* The way to the lobby, from the server as it starts.                     *)

NextLobby ==
    \/ \E s \in SocketIds \ DOMAIN socketToPlayer :
           RoomCreate(s, guestName(nanoid.players + 1))
    \/ \E s \in SocketIds \ DOMAIN socketToPlayer, rc \in RoomCodes, sp \in BOOLEAN :
           RoomJoin(s, rc, sp, guestName(nanoid.players + 1))
    \/ \E rc \in RoomCodes : AdminAddCardsToRoom(rc, customCards)

SpecLobby == Init /\ [][NextLobby]_vars

----------------------------------------------------------------------------
(* The operator's cards: the operator adds the saved target-and-number     *)
(* card to the room in play, and the game goes on with it.                 *)

NextSaved ==
    \/ \E rc \in RoomCodes : AdminAddCardsToRoom(rc, numberCards)
    \/ \E rc \in RoomCodes, p \in PlayerIds : TurnDraw(rc, p)
    \/ \E rc \in DOMAIN rooms, p \in PlayerIds :
           \E c \in resolveCardIds(rooms[rc]), res \in resolutionsFor(rooms[rc]) :
               CardResolve(rc, p, c, res)
    \/ \E rc \in RoomCodes, p \in PlayerIds, a \in 1..MaxAcks : AckConfirm(rc, p, a)

SpecSaved == GameInit /\ [][NextSaved]_vars

----------------------------------------------------------------------------
(* Display names: rooms are created and joined under the names the         *)
(* requests carry, and the operator removes players.                       *)

\* a name of 21 characters
LongName == [i \in 1..21 |-> "x"]

Names ==
    { <<>>, <<" ">>, <<"b", "o">>, <<"B", "O">>, <<" ", "b", "o">>, <<"a", "l", " ">>,
      LongName }

NextNames ==
    \/ \E s \in SocketIds \ DOMAIN socketToPlayer, name \in Names : RoomCreate(s, name)
    \/ \E s \in SocketIds \ DOMAIN socketToPlayer, rc \in RoomCodes, sp \in BOOLEAN :
           \E name \in Names : RoomJoin(s, rc, sp, name)
    \/ \E rc \in RoomCodes, p \in PlayerIds : AdminKickPlayer(rc, p)

SpecNames == Init /\ [][NextNames]_vars

----------------------------------------------------------------------------
(* The request deduplication system: two connections send room:create and  *)
(* room:join as fast as they like, the cleanup timeouts run when they are  *)
(* due, and the clock is followed in steps of MsStep.                      *)

LimiterSockets == {"s1", "s2"}
LimiterNames == { <<"a", "l">> }

NextLimiter ==
    \/ \E s \in LimiterSockets, name \in LimiterNames : RoomCreateLimited(s, name)
    \/ \E s \in LimiterSockets, rc \in RoomCodes, name \in LimiterNames :
           RoomJoinLimited(s, rc, FALSE, name)
    \/ \E t \in limiter.timeouts : pendingRequestsTimeout(t)
    \/ LimiterTick(MsStep, MaxMs)

SpecLimiter == Init /\ [][NextLimiter]_vars

----------------------------------------------------------------------------
(* The deck engine: a draw in weighted mode, in the room of the game after *)
(* the cards of a history have been drawn and resolved and the host has    *)
(* chosen the safe mode or not (the room's log and tallies, which the deck *)
(* engine does not read, are left as in the lobby).                        *)

HistoryIds == {"f1", "r1"}

\* the sequences of HistoryIds of length 0..MaxHistory
DeckHistories ==
    UNION {[1..n -> HistoryIds] : n \in 0..MaxHistory}

DeckInit ==
    /\ now = 0
    /\ \E h \in DeckHistories, safeMode \in BOOLEAN :
           rooms = ("ROOM01" :> [Lobby EXCEPT !.discard = h, !.drawIndex = Len(h),
                                              !.settings.safeMode = safeMode])
    /\ socketToPlayer = ("s1" :> [roomCode |-> "ROOM01", playerId |-> 1])
                            @@ ("s2" :> [roomCode |-> "ROOM01", playerId |-> 2])
                            @@ ("s3" :> [roomCode |-> "ROOM01", playerId |-> 3])
    /\ roomCleanupTimeouts = ("ROOM01" :> ROOM_INACTIVE_TIMEOUT)
    /\ byId = SeqToSet(UltimateDeck) \cup SeqToSet(customCards)
    /\ nanoid = [codes |-> {"ROOM01"}, players |-> 3, acks |-> 0]
    /\ limiter = NoRequests

NextDeck == \E rc \in RoomCodes, p \in PlayerIds : TurnDraw(rc, p)

SpecDeck == DeckInit /\ [][NextDeck]_vars

----------------------------------------------------------------------------
(* The log of a long game: the room of the game after so many logged       *)
(* operations that its log is at the cap or about to reach it (entry i of  *)
(* the log is represented by the numeral of i), and the players go on      *)
(* nudging.                                                                *)

LogLengths == {198, 199, 200}

LogInit ==
    /\ now = 0
    /\ \E n \in LogLengths :
           rooms = ("ROOM01" :> [Lobby EXCEPT !.log = [i \in 1..n |-> ToString(i)]])
    /\ socketToPlayer = ("s1" :> [roomCode |-> "ROOM01", playerId |-> 1])
                            @@ ("s2" :> [roomCode |-> "ROOM01", playerId |-> 2])
                            @@ ("s3" :> [roomCode |-> "ROOM01", playerId |-> 3])
    /\ roomCleanupTimeouts = ("ROOM01" :> ROOM_INACTIVE_TIMEOUT)
    /\ byId = SeqToSet(UltimateDeck) \cup SeqToSet(customCards)
    /\ nanoid = [codes |-> {"ROOM01"}, players |-> 3, acks |-> 0]
    /\ limiter = NoRequests

\* socket.on("turn:nudge") in a long game: the handler as in TurnNudge, the
\* log's length being left to the cap of pushLog
TurnNudgeLong(roomCode) ==
    /\ roomCode \in DOMAIN rooms
    /\ updateRoomActivity(roomCode, turn_nudge(rooms[roomCode]).room)
    /\ UNCHANGED <<socketToPlayer, byId, now, nanoid, limiter>>

NextLog == \E rc \in RoomCodes : TurnNudgeLong(rc)

SpecLog == LogInit /\ [][NextLog]_vars

----------------------------------------------------------------------------
(* The game under a fair sweep and clock: the setInterval callback keeps   *)
(* running every 500 ms and the wall clock keeps advancing, whatever the   *)
(* players do.  An interaction is launched only when the run's budgets of  *)
(* log entries and of time have room for its resolution.                   *)

ResolutionFits(room) ==
    room.interaction # Null =>
        /\ Len(room.log) < MaxLog
        /\ room.interaction[1].expiresAt <= MaxTime

CardResolveFair(roomCode, playerId, cardId, resolution) ==
    /\ CardResolve(roomCode, playerId, cardId, resolution)
    /\ ResolutionFits(rooms'[roomCode])

ClockTick == ClockRuns /\ AdvanceTime(TimeSteps, MaxTime)

NextFair ==
    \/ \E rc \in RoomCodes, p \in PlayerIds : TurnDraw(rc, p)
    \/ \E rc \in DOMAIN rooms, p \in PlayerIds :
           \E c \in resolveCardIds(rooms[rc]), res \in resolutionsFor(rooms[rc]) :
               CardResolveFair(rc, p, c, res)
    \/ \E rc \in RoomCodes, p \in PlayerIds, ch \in RpsChoices : RpsChoose(rc, p, ch)
    \/ \E rc \in RoomCodes, p \in PlayerIds, v \in Votes : WyrVote(rc, p, v)
    \/ SweepTick
    \/ ClockTick

SpecFair ==
    /\ GameInit
    /\ [][NextFair]_vars
    /\ WF_vars(SweepTick)
    /\ WF_vars(ClockTick)

----------------------------------------------------------------------------
(* Two rooms: connections create and join rooms, whether or not they are   *)
(* bound to a member already (room:create and room:join do not look at the *)
(* connection's binding), and rooms are closed.                            *)

TwoRoomCodes == {"ROOM01", "ROOM02"}

NextRooms ==
    \/ \E s \in SocketIds, rc \in TwoRoomCodes \ nanoid.codes :
           /\ RoomCreateCoded(s, guestName(nanoid.players + 1), rc)
           /\ UNCHANGED limiter
    \/ \E s \in SocketIds, rc \in TwoRoomCodes :
           RoomJoin(s, rc, FALSE, guestName(nanoid.players + 1))
    \/ \E s \in SocketIds : Disconnect(s)
    \/ \E s \in SocketIds, rc \in TwoRoomCodes : HostCloseRoom(s, rc)
    \/ \E rc \in TwoRoomCodes : AdminCloseRoom(rc)

SpecRooms == Init /\ [][NextRooms]_vars

----------------------------------------------------------------------------
(* The timer of a draw: the host has loaded a deck of one card, of any     *)
(* type and resolution kind (room:setDeck in the lobby, with a card the    *)
(* operator saved), and the card is drawn.                                 *)

TimerInit ==
    /\ now = 0
    /\ \E c \in timerCards :
           /\ rooms = ("ROOM01" :> pushLog([Lobby EXCEPT !.settings.customDeckOrder = <<c.id>>],
                                           "deck"))
           /\ byId = SeqToSet(UltimateDeck) \cup SeqToSet(customCards) \cup {c.id}
    /\ socketToPlayer = ("s1" :> [roomCode |-> "ROOM01", playerId |-> 1])
                            @@ ("s2" :> [roomCode |-> "ROOM01", playerId |-> 2])
                            @@ ("s3" :> [roomCode |-> "ROOM01", playerId |-> 3])
    /\ roomCleanupTimeouts = ("ROOM01" :> ROOM_INACTIVE_TIMEOUT)
    /\ nanoid = [codes |-> {"ROOM01"}, players |-> 3, acks |-> 0]
    /\ limiter = NoRequests

NextTimer ==
    \/ \E rc \in RoomCodes, p \in PlayerIds : TurnDraw(rc, p)
    \/ SweepTick
    \/ ClockTick

SpecTimer == TimerInit /\ [][NextTimer]_vars

----------------------------------------------------------------------------
(* Turns of a room that nobody is removed from: the room is created,       *)
(* players and spectators join it, before the game and during it, and the  *)
(* turn moves on by resolutions and time-outs.                             *)

\* the connection of the next member to arrive: each arrives on its own
NewSocket == <<"s1", "s2", "s3", "s4">>[nanoid.players + 1]

\* the payload of a card:resolve request that names nobody and says nothing
NoResolution ==
    [targetPlayerId |-> NoId, targetPlayerId2 |-> NoId, ruleText |-> <<>>, numberValue |-> 0]

NextTurns ==
    \/ nanoid.players < MaxMembers /\ RoomCreate(NewSocket, guestName(nanoid.players + 1))
    \/ \E rc \in RoomCodes, sp \in BOOLEAN :
           /\ nanoid.players < MaxMembers
           /\ RoomJoin(NewSocket, rc, sp, guestName(nanoid.players + 1))
    \/ \E rc \in RoomCodes, p \in PlayerIds : TurnDraw(rc, p)
    \/ \E rc \in DOMAIN rooms, p \in PlayerIds :
           \E c \in resolveCardIds(rooms[rc]) : CardResolve(rc, p, c, NoResolution)
    \/ SweepTick
    \/ ClockTick

SpecTurns == Init /\ [][NextTurns]_vars

----------------------------------------------------------------------------
(* Properties.  The ones about what a request does to a room are stated on *)
(* the handler's outcome, for every request the input sets hold, in every  *)
(* reachable state.                                                        *)

\* drinks taken / given by pid as the room's tally has them
taken(room, pid) == IF pid \in DOMAIN room.drinkStats THEN room.drinkStats[pid].taken ELSE 0
given(room, pid) == IF pid \in DOMAIN room.drinkStats THEN room.drinkStats[pid].given ELSE 0

\* the last entry of the room's log is tag
LastLog(room, tag) == room.log # <<>> /\ room.log[Len(room.log)] = tag

\* C1: in every reachable state of every room, currentDraw and interaction
\* are not both non-null.
C1_DrawExcludesInteraction ==
    \A rc \in DOMAIN rooms :
        ~(rooms[rc].currentDraw # Null /\ rooms[rc].interaction # Null)

\* C1 witness: a drawn card has been turned into a running interaction.
C1_InteractionLaunched ==
    \E rc \in DOMAIN rooms :
        /\ rooms[rc].interaction # Null
        /\ rooms[rc].currentDraw = Null
        /\ rooms[rc].interaction[1].cardId \in SeqToSet(rooms[rc].discard)

\* C2: whenever a room has active players, turnIndex is the seat index of
\* one of them, so a turn holder exists.
C2_TurnHolderExists ==
    \A rc \in DOMAIN rooms :
        activePlayers(rooms[rc]) # <<>> => currentTurnPlayer(rooms[rc]) # Null

\* a drawn card whose enabled timer has run out at time t
ExpiredDraw(room, t) ==
    /\ room.currentDraw # Null
    /\ room.interaction = Null
    /\ room.turnTimer # Null
    /\ room.turnTimer[1].enabled
    /\ room.turnTimer[1].endsAt <= t

\* C3: on a drawn card whose enabled timer has run out, the sweep gives the
\* drawer exactly one drink taken and nobody else anything, ends the draw
\* and moves turnIndex on by one turn; every sweep tick after that, at the
\* same or any later time, leaves the room as it is.
C3_TimeoutOnce ==
    \A rc \in DOMAIN rooms :
        LET room == rooms[rc]
            pid == room.currentDraw[1].drawnByPlayerId
            after == sweepRoom(room, now).room
        IN  ExpiredDraw(room, now) =>
              /\ taken(after, pid) = taken(room, pid) + 1
              /\ \A p \in PlayerIds \ {pid} : taken(after, p) = taken(room, p)
              /\ \A p \in PlayerIds : given(after, p) = given(room, p)
              /\ after.currentDraw = Null
              /\ after.turnIndex = nextTurnIndex(room)
              /\ \A t \in now..(MaxTime + 1) : sweepRoom(after, t).room = after

\* C3 witness: the sweep has applied a timeout penalty.
C3_TimedOut ==
    \E rc \in DOMAIN rooms :
        /\ LastLog(rooms[rc], "time up")
        /\ \E p \in PlayerIds : taken(rooms[rc], p) = 1

\* C4: when the assignee's ack:confirm of an ackId succeeds, the same request
\* made again succeeds too, changes nothing in the room and broadcasts
\* nothing.
C4_ConfirmIdempotent ==
    \A rc \in DOMAIN rooms : \A p \in PlayerIds, a \in 1..MaxAcks :
        LET first == ack_confirm(rooms[rc], p, a)
            second == ack_confirm(first.room, p, a)
        IN  first.cb = <<"ok">> =>
              /\ second.cb = <<"ok">>
              /\ second.room = first.room
              /\ second.emits = <<>>

\* the card:resolve payload that names t1 and t2
Targets(t1, t2) ==
    [targetPlayerId |-> t1, targetPlayerId2 |-> t2, ruleText |-> <<>>, numberValue |-> 0]

\* the drawn card of the room is of resolution kind k
Drawn(room, k) ==
    /\ room.currentDraw # Null
    /\ room.currentDraw[1].cardId \in byId
    /\ Card(room.currentDraw[1].cardId).kind = k

\* C5: card:resolve of a drawn two-target card with targetPlayerId equal to
\* targetPlayerId2 is answered with an error and leaves the room as it is.
C5_SameTargetsRejected ==
    \A rc \in DOMAIN rooms : \A p \in PlayerIds, t \in TargetIds :
        LET room == rooms[rc]
            o == card_resolve(room, p, room.currentDraw[1].cardId, Targets(t, t), nanoid.acks)
        IN  Drawn(room, "chooseTwoTargets") =>
              /\ "ok" \notin SeqToSet(o.cb)
              /\ o.room = room
              /\ o.acks = 0

\* y beats x
Beaten(x, y) ==
    <<x, y>> \in {<<"scissors", "rock">>, <<"rock", "paper">>, <<"paper", "scissors">>}

\* the room after first has chosen c1 and then second has chosen c2
Duel(room, first, c1, second, c2) ==
    interaction_rps_choose(interaction_rps_choose(room, first, c1).room, second, c2).room

\* the duel with the roles of challenger and opponent exchanged
SwapRoles(room) ==
    [room EXCEPT !.interaction[1].startedByPlayerId = room.interaction[1].opponentPlayerId,
                 !.interaction[1].opponentPlayerId = room.interaction[1].startedByPlayerId]

\* C6: in a duel where nobody has chosen yet, for every pair of choices of
\* challenger a and opponent b: on equal choices both get exactly +1 taken,
\* otherwise exactly the one whose choice is beaten gets +1 taken; nobody
\* else's tally changes; the order in which the two choose does not
\* matter, and with the roles exchanged the tallies come out the same.
C6_DuelResolution ==
    \A rc \in DOMAIN rooms :
        LET room == rooms[rc]
            a == room.interaction[1].startedByPlayerId
            b == room.interaction[1].opponentPlayerId
        IN  (room.interaction # Null /\ room.interaction[1].kind = "rps"
                /\ room.interaction[1].choices = <<>>) =>
            \A ca \in RpsChoices, cb \in RpsChoices :
                LET fin == Duel(room, a, ca, b, cb)
                IN  /\ fin.interaction = Null
                    /\ taken(fin, a) = taken(room, a)
                                         + (IF ca = cb \/ Beaten(ca, cb) THEN 1 ELSE 0)
                    /\ taken(fin, b) = taken(room, b)
                                         + (IF ca = cb \/ Beaten(cb, ca) THEN 1 ELSE 0)
                    /\ \A p \in PlayerIds \ {a, b} : taken(fin, p) = taken(room, p)
                    /\ \A p \in PlayerIds : given(fin, p) = given(room, p)
                    /\ Duel(room, b, cb, a, ca).drinkStats = fin.drinkStats
                    /\ Duel(SwapRoles(room), b, cb, a, ca).drinkStats = fin.drinkStats

\* C6 witness: a duel has been decided with one loser.
C6_DuelDecided ==
    \E rc \in DOMAIN rooms :
        /\ LastLog(rooms[rc], "rps result")
        /\ Cardinality({p \in PlayerIds : taken(rooms[rc], p) = 1}) = 1

\* the active players whose vote in votes is v
VotersOf(room, votes, v) ==
    {p \in ActiveIds(room) : p \in DOMAIN votes /\ votes[p] = v}

\* the outcome C7 describes of a vote resolved in room before, with the
\* votes as given, leading to room after
MinorityDrinks(before, votes, after) ==
    LET A == VotersOf(before, votes, "A")
        B == VotersOf(before, votes, "B")
        drinkers == IF Cardinality(A) = Cardinality(B) THEN ActiveIds(before)
                    ELSE IF Cardinality(A) < Cardinality(B) THEN A
                    ELSE B
    IN  /\ after.interaction = Null
        /\ \A p \in PlayerIds :
              /\ taken(after, p) = taken(before, p) + (IF p \in drinkers THEN 1 ELSE 0)
              /\ given(after, p) = given(before, p)

\* C7: when a group vote resolves, by the vote that completes it or by its
\* expiry, every active player gets exactly +1 taken if as many active
\* players voted A as B, otherwise exactly the voters of the smaller side
\* get +1 taken; nobody else's tally changes.
C7_GroupVote ==
    \A rc \in DOMAIN rooms :
        LET room == rooms[rc]
            inter == room.interaction[1]
        IN  (room.interaction # Null /\ inter.kind = "wyr") =>
              /\ \A p \in PlayerIds, v \in Votes :
                    LET o == interaction_wyr_vote(room, p, v)
                    IN  (o.cb = <<"ok">> /\ o.room.interaction = Null) =>
                            MinorityDrinks(room, Put(inter.votes, p, v), o.room)
              /\ \A t \in now..(MaxTime + 1) :
                    inter.expiresAt <= t =>
                        MinorityDrinks(room, inter.votes, sweepRoom(room, t).room)

\* C7 witness: a vote has resolved two against one, and the one drank.
C7_MinorityDrank ==
    \E rc \in DOMAIN rooms :
        /\ LastLog(rooms[rc], "wyr result")
        /\ Cardinality(ActiveIds(rooms[rc])) = 3
        /\ Cardinality({p \in PlayerIds : taken(rooms[rc], p) = 1}) = 1

\* C8: when the inactivity timeout removes a room, no connection is left
\* mapped to that room.
C8_CleanupPurgesConnections ==
    [][\A rc \in RoomCodes :
          (cleanupInactiveRoom(rc) /\ rc \in DOMAIN rooms /\ rc \notin DOMAIN rooms') =>
              \A s \in DOMAIN socketToPlayer' : socketToPlayer'[s].roomCode # rc]_vars

\* the error codes C9 lists
ListedErrors ==
    {"ROOM_NOT_FOUND", "NO_TURN_PLAYER", "NOT_YOUR_TURN", "UNRESOLVED_CARD",
     "INTERACTION_ACTIVE", "CARD_NOT_FOUND", "NO_ACTIVE_DRAW", "CARD_MISMATCH",
     "NOT_DRAWER", "MISSING_TARGET", "MISSING_TARGETS", "MISSING_RULE_TEXT",
     "ACK_NOT_FOUND", "NOT_YOUR_ACK"}

\* outcome o answers the request on room with one of the listed errors
ListedError(o) == o.cb # <<>> /\ o.cb[1] \in ListedErrors

\* outcome o leaves room, its activity stamp and the ack ids as they were
Untouched(room, o) == o.room = room /\ ~o.activity /\ o.acks = 0 /\ o.emits = <<>>

\* the card ids a card:resolve request may name
RequestCardIds == SeqToSet(UltimateDeck) \cup SeqToSet(customCards) \cup {"zz9"}

\* C9: a turn:draw, card:resolve or ack:confirm request answered with one
\* of the listed error codes leaves the room exactly as it was.
C9_ErrorsLeaveRoom ==
    \A rc \in DOMAIN rooms :
        LET room == rooms[rc]
        IN  /\ \A p \in PlayerIds, c \in drawnCardIds(room) :
                  LET o == turn_draw(room, p, c)
                  IN  ListedError(o) => Untouched(room, o)
            /\ \A p \in PlayerIds, c \in RequestCardIds, res \in Resolutions :
                  LET o == card_resolve(room, p, c, res, nanoid.acks)
                  IN  ListedError(o) => Untouched(room, o)
            /\ \A p \in PlayerIds, a \in 0..MaxAcks :
                  LET o == ack_confirm(room, p, a)
                  IN  ListedError(o) => Untouched(room, o)

\* C9 witness: a card is drawn, a receipt is pending, and requests of all
\* three kinds are answered with listed errors.
C9_ErrorsAnswered ==
    \E rc \in DOMAIN rooms :
        LET room == rooms[rc]
        IN  /\ room.currentDraw # Null
            /\ room.pendingAcks # <<>>
            /\ \E p \in PlayerIds, c \in drawnCardIds(room) :
                   turn_draw(room, p, c).cb = <<"UNRESOLVED_CARD">>
            /\ \E p \in PlayerIds, res \in Resolutions :
                   card_resolve(room, p, room.currentDraw[1].cardId, res, nanoid.acks).cb[1]
                       \in {"MISSING_TARGET", "MISSING_TARGETS", "MISSING_RULE_TEXT"}
            /\ \E p \in PlayerIds, a \in 1..MaxAcks :
                   ack_confirm(room, p, a).cb = <<"NOT_YOUR_ACK">>

\* C10: card:resolve of a drawn duel card by its drawer, naming an opponent
\* who is not an active player of the room or the drawer themself, is
\* answered INVALID_TARGET and nothing else, and leaves the room as it is.
C10_InvalidOpponentRejected ==
    \A rc \in DOMAIN rooms : \A t \in PlayerIds :
        LET room == rooms[rc]
            p == room.currentDraw[1].drawnByPlayerId
            o == card_resolve(room, p, room.currentDraw[1].cardId, Targets(t, NoId), nanoid.acks)
        IN  (Drawn(room, "rockPaperScissors") /\ assertIsTurnPlayer(room, p).ok
                /\ (t \notin ActiveIds(room) \/ t = p)) =>
              /\ o.cb = <<"INVALID_TARGET">>
              /\ o.room = room

----------------------------------------------------------------------------
(* Confirmations and the flow of the game *)

\* the room with its list of pending confirmations taken away
WithoutAcks(room) == [room EXCEPT !.pendingAcks = <<>>]

\* outcome o of a request on room is the outcome o0 of the same request on
\* the room without its pending confirmations, the list carried along
SameButAcks(room, o, o0) ==
    /\ o.cb = o0.cb
    /\ o.emits = o0.emits
    /\ o.activity = o0.activity
    /\ o.acks = o0.acks
    /\ WithoutAcks(o.room) = WithoutAcks(o0.room)
    /\ o.room.pendingAcks = room.pendingAcks \o o0.room.pendingAcks

\* the request was answered ok (last answer given)
AnsweredOk(o) == o.cb # <<>> /\ o.cb[Len(o.cb)] = "ok"

\* C11: pending confirmations never gate the game: turn:draw and card:resolve
\* have the same outcome whatever the pending-ack list holds, and every
\* successful card:resolve that starts no interaction clears currentDraw and
\* the timer and moves the turn on in the same step.
C11_AcksNeverGate ==
    \A rc \in DOMAIN rooms : \A p \in PlayerIds :
        LET room == rooms[rc] IN
        /\ \A c \in drawnCardIds(room) :
               SameButAcks(room, turn_draw(room, p, c), turn_draw(WithoutAcks(room), p, c))
        /\ \A c \in resolveCardIds(room), res \in resolutionsFor(room) :
               LET o == card_resolve(room, p, c, res, nanoid.acks)
                   ap == activePlayers(room)
               IN  /\ SameButAcks(room, o,
                                  card_resolve(WithoutAcks(room), p, c, res, nanoid.acks))
                   /\ (AnsweredOk(o) /\ o.room.interaction = Null) =>
                          /\ o.room.currentDraw = Null
                          /\ o.room.turnTimer = Null
                          /\ o.room.turnIndex = (room.turnIndex + 1) % Len(ap)
                          /\ (Len(ap) >= 2 => o.room.turnIndex # room.turnIndex)
                          /\ \E i \in 1..Len(o.emits) : o.emits[i].ev = "turn:changed"

\* C11 witness: a card is drawn, and can be resolved, while a confirmation
\* created by an earlier card is still pending.
C11_DrawnWithPendingAck ==
    \E rc \in DOMAIN rooms :
        LET room == rooms[rc] IN
        /\ LastLog(room, "drew")
        /\ room.currentDraw # Null
        /\ \E i \in 1..Len(room.pendingAcks) : room.pendingAcks[i].status = "pending"
        /\ \E res \in Resolutions :
               AnsweredOk(card_resolve(room, room.currentDraw[1].drawnByPlayerId,
                                       room.currentDraw[1].cardId, res, nanoid.acks))

\* C12: while a room has an active interaction no turn:draw succeeds: every
\* draw leaves the room as it is, and the draw of the current turn holder is
\* answered INTERACTION_ACTIVE.
C12_NoDrawDuringInteraction ==
    \A rc \in DOMAIN rooms :
        LET room == rooms[rc] IN
        room.interaction # Null =>
            \A p \in PlayerIds, c \in drawnCardIds(room) :
                LET o == turn_draw(room, p, c) IN
                /\ ~AnsweredOk(o)
                /\ Untouched(room, o)
                /\ assertIsTurnPlayer(room, p).ok => o.cb = <<"INTERACTION_ACTIVE">>

\* C12 witness: an interaction runs and the room has a current turn holder,
\* whose draw is refused.
C12_HolderDrawsDuringInteraction ==
    \E rc \in DOMAIN rooms :
        LET room == rooms[rc]
            cur == currentTurnPlayer(room)
        IN  /\ room.interaction # Null
            /\ cur # Null
            /\ \E c \in drawnCardIds(room) :
                   turn_draw(room, cur[1].playerId, c).cb = <<"INTERACTION_ACTIVE">>

----------------------------------------------------------------------------
(* Validation of card:resolve *)

\* card:resolve by playerId names the card playerId has drawn and holds
DrawnBy(room, playerId, cardId) ==
    /\ assertIsTurnPlayer(room, playerId).ok
    /\ room.currentDraw # Null
    /\ room.currentDraw[1].cardId = cardId
    /\ room.currentDraw[1].drawnByPlayerId = playerId
    /\ cardId \in byId

\* the card kinds that ask for one target
TargetKinds == {"chooseTarget", "chooseTargetAndNumber", "rockPaperScissors"}

\* C13: for every card kind that requires a target (single target,
\* target-and-number, duel challenge) card:resolve without a target player id
\* is answered MISSING_TARGET and changes nothing; free-text rule creation
\* with empty or whitespace-only text is answered MISSING_RULE_TEXT and
\* changes nothing.
C13_MissingInputRejected ==
    \A rc \in DOMAIN rooms : \A p \in PlayerIds :
        \A c \in resolveCardIds(rooms[rc]), res \in resolutionsFor(rooms[rc]) :
            LET room == rooms[rc]
                o == card_resolve(room, p, c, res, nanoid.acks)
            IN  DrawnBy(room, p, c) =>
                    /\ (Card(c).kind \in TargetKinds /\ res.targetPlayerId = NoId) =>
                           o.cb = <<"MISSING_TARGET">> /\ Untouched(room, o)
                    /\ (Card(c).kind = "createRuleText" /\ trim(res.ruleText) = <<>>) =>
                           o.cb = <<"MISSING_RULE_TEXT">> /\ Untouched(room, o)

----------------------------------------------------------------------------
(* Host-only requests *)

\* playerId is the player at seat 0 of room
AtSeatZero(room, playerId) ==
    \E i \in 1..Len(room.players) :
        room.players[i].seatIndex = 0 /\ room.players[i].playerId = playerId

----------------------------------------------------------------------------
(* Display names *)

\* the members of room, players and spectators
Members(room) == room.players \o room.spectators

\* C15: in every reachable state no two members (players and spectators) of
\* one room have display names that are equal ignoring letter case, whatever
\* names room:join accepted (names with leading or trailing whitespace
\* included): a join under a colliding name adds nobody.
C15_NamesUnique ==
    \A rc \in DOMAIN rooms :
        LET ms == Members(rooms[rc]) IN
        \A i, j \in 1..Len(ms) :
            i # j => toLowerCase(ms[i].name) # toLowerCase(ms[j].name)

----------------------------------------------------------------------------
(* Destroyed rooms *)

\* C16: after a room is destroyed by any path (host disconnect,
\* host:close-room, admin close, inactivity cleanup) no entry of the
\* connection map refers to it, for every connection that create, join or
\* reconnect bound to the room: every entry of the map names a room of the
\* registry.
C16_NoMappingToDestroyedRoom ==
    \A s \in DOMAIN socketToPlayer : socketToPlayer[s].roomCode \in DOMAIN rooms

----------------------------------------------------------------------------
(* The host *)

\* C17: while a room exists in the registry its creator is in the player
\* list with seat index 0 and is the host: every room has a seat-0 player who
\* is its host, and no step (join, host:kick, admin kick, disconnect,
\* reconnect) that leaves the room in the registry removes or replaces that
\* player.
C17_HostPermanent ==
    [][\A rc \in DOMAIN rooms :
           LET h == hostPlayerOf(rooms[rc]) IN
           /\ h # Null
           /\ isHost(rooms[rc], h[1].playerId)
           /\ rc \in DOMAIN rooms' => AtSeatZero(rooms'[rc], h[1].playerId)]_vars

----------------------------------------------------------------------------
(* Request deduplication *)

\* C18: for one connection and one rate-limited action type (room:create,
\* room:join) any two accepted requests are at least the cooldown (1000 ms)
\* apart: a request arriving less than 1000 ms after the previous accepted
\* one is stopped (TOO_MANY_REQUESTS), however the requests interleave with
\* the cleanup timeouts.
C18_CooldownBetweenAccepted ==
    \A key \in DOMAIN limiter.accepted :
        limiter.now - limiter.accepted[key] < COOLDOWN_MS
            => ~canProcessRequest(limiter, key)

----------------------------------------------------------------------------
(* Custom decks *)

\* the ids of the shipped catalog
CatalogIds == SeqToSet(UltimateDeck)

\* room:setDeck answered ok has left room with a custom order of catalog
\* ids and a fresh deck position
DeckLoaded(room) ==
    /\ Len(room.settings.customDeckOrder) > 0
    /\ SeqToSet(room.settings.customDeckOrder) \subseteq CatalogIds
    /\ room.drawIndex = 0
    /\ room.discard = <<>>
    /\ room.currentDraw = Null
    /\ room.turnTimer = Null

----------------------------------------------------------------------------
(* Weighted draw *)

\* the candidates of a weighted draw in room
Candidates(room) == {id \in SeqToSet(effectiveOrder(room)) : id \in byId}

\* id is among the last 8 discards of room
Recent(room, id) == id \in SeqToSet(recentDiscard(room))

\* C20: in weighted mode, for every discard history and safe-mode setting,
\* the weight of a candidate whose id is among the last 8 discards is 0.25
\* times the weight the same candidate has under the same per-type recent
\* counts when its id is not among them (the 0.05 floor never comes into
\* play), so that of two candidates of one type the recently discarded one
\* has a quarter of the other's weight.
C20_RecentQuarterWeight ==
    \A rc \in DOMAIN rooms :
        LET room == rooms[rc]
            forfeits == recentCount(room, "forfeit")
        IN  \A c \in Candidates(room) :
                LET type == Card(c).type
                    same == recentCount(room, type)
                IN  Recent(room, c) =>
                        /\ 4 * cardWeight(room, c)
                               = weightOf(type, room.settings.safeMode, FALSE, forfeits, same)
                        /\ cardWeight(room, c) > WEIGHT_FLOOR
                        /\ \A d \in Candidates(room) :
                               (Card(d).type = type /\ ~Recent(room, d))
                                   => 4 * cardWeight(room, c) = cardWeight(room, d)

\* C20 witness: in safe mode, with more than 8 cards discarded and at least
\* 4 forfeits among the last 8, a forfeit that was among them has been drawn
\* again while another forfeit was not among them.
C20_RecentForfeitDrawn ==
    \E rc \in DOMAIN rooms :
        LET room == rooms[rc]
            before == [room EXCEPT !.discard = SubSeq(@, 1, Len(@) - 1)]
        IN  /\ LastLog(room, "drew")
            /\ room.currentDraw # Null
            /\ room.settings.safeMode
            /\ Len(before.discard) > RECENT_WINDOW
            /\ recentCount(before, "forfeit") >= 4
            /\ Recent(before, room.currentDraw[1].cardId)
            /\ Card(room.currentDraw[1].cardId).type = "forfeit"
            /\ \E d \in Candidates(before) : Card(d).type = "forfeit" /\ ~Recent(before, d)

----------------------------------------------------------------------------
(* The log *)

\* new is old with tag appended and, when that exceeds 200 entries, exactly
\* the oldest dropped so that the newest 200 remain in their order
LogStep(old, tag, new) ==
    LET dropped == Len(old) + 1 - Len(new) IN
    /\ Len(new) = Min(Len(old) + 1, 200)
    /\ new[Len(new)] = tag
    /\ \A i \in 1..(Len(new) - 1) : new[i] = old[i + dropped]

\* C21: a room's log holds at most 200 entries in append order; when an
\* append would exceed 200, exactly the oldest entries are dropped and the
\* newest 200 are kept.
C21_LogCapped ==
    \A rc \in DOMAIN rooms :
        /\ Len(rooms[rc].log) <= 200
        /\ LogStep(rooms[rc].log, "nudged", turn_nudge(rooms[rc]).room.log)

\* C21 witness: the log is full, its newest entry is a nudge and its oldest
\* entries have been dropped.
C21_OldestDropped ==
    \E rc \in DOMAIN rooms :
        LET log == rooms[rc].log IN
        /\ Len(log) = 200
        /\ log[200] = "nudged"
        /\ log[1] = "3"

----------------------------------------------------------------------------
(* Interactions *)

TurnChanges(emits) == Len(Filter(emits, LAMBDA e : e.ev = "turn:changed"))

\* after is before with its interaction resolved: cleared, the turn moved
\* on once and announced once, and neither a later sweep nor a later
\* submission resolves it again
ResolvedOnce(before, after, emits) ==
    /\ after.interaction = Null
    /\ after.turnIndex = nextTurnIndex(before)
    /\ Len(after.log) = Len(before.log) + 1
    /\ TurnChanges(emits) = 1
    /\ \A t \in {now, before.interaction[1].expiresAt} : sweepRoom(after, t).room = after
    /\ \A p \in PlayerIds :
           /\ \A ch \in RpsChoices : interaction_rps_choose(after, p, ch).room = after
           /\ \A v \in Votes : interaction_wyr_vote(after, p, v).room = after

\* after is before with its interaction still running
StillRunning(before, after, emits) ==
    /\ after.interaction # Null
    /\ after.turnIndex = before.turnIndex
    /\ after.log = before.log
    /\ TurnChanges(emits) = 0

C22_ResolvedExactlyOnce ==
    \A rc \in DOMAIN rooms :
        LET room == rooms[rc] IN
        room.interaction # Null =>
            /\ \A t \in {now, room.interaction[1].expiresAt} :
                   LET o == sweepRoom(room, t) IN
                   IF t >= room.interaction[1].expiresAt
                   THEN ResolvedOnce(room, o.room, o.emits)
                   ELSE StillRunning(room, o.room, o.emits)
            /\ \A p \in PlayerIds, ch \in RpsChoices :
                   LET o == interaction_rps_choose(room, p, ch) IN
                   \/ ResolvedOnce(room, o.room, o.emits)
                   \/ StillRunning(room, o.room, o.emits)
            /\ \A p \in PlayerIds, v \in Votes :
                   LET o == interaction_wyr_vote(room, p, v) IN
                   \/ ResolvedOnce(room, o.room, o.emits)
                   \/ StillRunning(room, o.room, o.emits)

C22_EventuallyCleared ==
    \A rc \in RoomCodes :
        (rc \in DOMAIN rooms /\ rooms[rc].interaction # Null)
            ~> (rc \in DOMAIN rooms => rooms[rc].interaction = Null)

\* C22: every interaction (duel or group vote), once launched, is eventually
\* cleared under a fair sweep tick and advancing clock, even if no
\* participant ever acts; and each interaction causes exactly one resolution
\* and exactly one turn advance, whether it is resolved eagerly by a
\* player's submission or by the sweep on expiry, never both.
C22_InteractionsEnd == C22_EventuallyCleared /\ []C22_ResolvedExactlyOnce

\* C22 witness: a group vote in which nobody voted has been resolved by the
\* sweep at its expiry.
C22_SweptUnanswered ==
    \E rc \in DOMAIN rooms :
        LET room == rooms[rc] IN
        /\ room.interaction = Null
        /\ now >= WYR_EXPIRY
        /\ Len(room.log) > 0
        /\ room.log[Len(room.log)] = "wyr result"
        /\ \A p \in ActiveIds(room) : p \in DOMAIN room.drinkStats /\ room.drinkStats[p].taken = 1

\* C23: when a duel expires before both participants have chosen: if exactly
\* one participant chose, exactly the non-chooser gets +1 taken; if neither
\* chose, both get +1 taken; in both cases the interaction is cleared and
\* the turn advances once.
C23_DuelExpiry ==
    \A rc \in DOMAIN rooms :
        LET room == rooms[rc]
            inter == room.interaction[1]
            a == inter.startedByPlayerId
            b == inter.opponentPlayerId
            chose == DOMAIN inter.choices
            o == sweepRoom(room, inter.expiresAt)
            Plus(pid) == taken(o.room, pid) - taken(room, pid)
        IN  (room.interaction # Null /\ inter.kind = "rps" /\ ~({a, b} \subseteq chose)) =>
                /\ Plus(a) = IF a \in chose THEN 0 ELSE 1
                /\ Plus(b) = IF b \in chose THEN 0 ELSE 1
                /\ \A p \in PlayerIds \ {a, b} : Plus(p) = 0
                /\ o.room.interaction = Null
                /\ o.room.turnIndex = nextTurnIndex(room)
                /\ TurnChanges(o.emits) = 1

\* C23 witness: a duel in which only the challenger chose has expired and
\* the sweep has made the opponent alone drink.
C23_NonChooserDrank ==
    \E rc \in DOMAIN rooms :
        LET room == rooms[rc] IN
        /\ room.interaction = Null
        /\ Len(room.log) > 0
        /\ room.log[Len(room.log)] = "rps timeout"
        /\ \E p \in PlayerIds : taken(room, p) = 1 /\ \A q \in PlayerIds \ {p} : taken(room, q) = 0

\* the pairs <<winning choice, losing choice>> of rock paper scissors
RpsWins == {<<"rock", "scissors">>, <<"paper", "rock">>, <<"scissors", "paper">>}

\* C24: in a duel, while fewer than two choices are present a participant's
\* new submission replaces their earlier one; the submission that makes both
\* choices present resolves the duel in that same step (penalty applied,
\* interaction cleared, turn advanced once) using each participant's latest
\* choice; a submission from anyone who is not one of the two participants
\* records nothing.
C24_DuelSubmission ==
    \A rc \in DOMAIN rooms :
        LET room == rooms[rc]
            inter == room.interaction[1]
            a == inter.startedByPlayerId
            b == inter.opponentPlayerId
        IN  (room.interaction # Null /\ inter.kind = "rps") =>
            \A p \in PlayerIds, ch \in RpsChoices :
                LET o == interaction_rps_choose(room, p, ch)
                    other == IF p = a THEN b ELSE a
                    ca == IF p = a THEN ch ELSE inter.choices[a]
                    cbChoice == IF p = b THEN ch ELSE inter.choices[b]
                    Plus(pid) == taken(o.room, pid) - taken(room, pid)
                IN  IF p \notin {a, b}
                    THEN o.room = room /\ o.cb = <<"NOT_PARTICIPANT">>
                    ELSE IF other \notin DOMAIN inter.choices
                    THEN /\ o.room = [room EXCEPT !.interaction[1].choices =
                                         [q \in DOMAIN @ \cup {p} |-> IF q = p THEN ch ELSE @[q]]]
                         /\ TurnChanges(o.emits) = 0
                    ELSE /\ ResolvedOnce(room, o.room, o.emits)
                         /\ Plus(a) = IF ca = cbChoice \/ <<cbChoice, ca>> \in RpsWins THEN 1 ELSE 0
                         /\ Plus(b) = IF ca = cbChoice \/ <<ca, cbChoice>> \in RpsWins THEN 1 ELSE 0
                         /\ \A q \in PlayerIds \ {a, b} : Plus(q) = 0

\* C24 witness: a duel has been resolved by its second choice and one
\* participant alone has drunk.
C24_DuelDecided ==
    \E rc \in DOMAIN rooms :
        LET room == rooms[rc] IN
        /\ room.interaction = Null
        /\ Len(room.log) > 0
        /\ room.log[Len(room.log)] = "rps result"
        /\ \E p \in PlayerIds : taken(room, p) = 1 /\ \A q \in PlayerIds \ {p} : taken(room, q) = 0

----------------------------------------------------------------------------
(* A drawn card: resolution against time-out *)

\* the times of later sweep ticks that matter to a draw resolved into
\* after: now, the end of the draw's timer, and the interaction's expiry
LaterTimes(room, after) ==
    {now, now + 1}
        \cup (IF room.turnTimer # Null /\ room.turnTimer[1].enabled
              THEN {t \in {room.turnTimer[1].endsAt, room.turnTimer[1].endsAt + 1} : t >= now}
              ELSE {})
        \cup (IF after.interaction # Null
              THEN {after.interaction[1].expiresAt - 1, after.interaction[1].expiresAt}
              ELSE {})

\* C25: for each drawn card at most one of card:resolve and timer expiry
\* takes effect, in whichever order the request and the sweep tick arrive:
\* after a successful card:resolve no later sweep tick penalizes that draw
\* or advances the turn for it (a tick that finds the interaction the card
\* launched expired resolves that interaction, once), and after the sweep
\* has timed a draw out a later card:resolve for that card is rejected and
\* changes nothing.
C25_ResolveOrTimeout ==
    \A rc \in DOMAIN rooms :
        LET room == rooms[rc]
            draw == room.currentDraw[1]
            swept == sweepRoom(room, now).room
        IN  room.currentDraw # Null =>
            /\ \A p \in PlayerIds, res \in Resolutions :
                   LET o == card_resolve(room, p, draw.cardId, res, nanoid.acks) IN
                   AnsweredOk(o) =>
                       \A t \in LaterTimes(room, o.room) :
                           LET s == sweepRoom(o.room, t) IN
                           IF o.room.interaction # Null /\ o.room.interaction[1].expiresAt <= t
                           THEN /\ ResolvedOnce(o.room, s.room, s.emits)
                                /\ ~LastLog(s.room, "time up")
                           ELSE s.room = o.room /\ s.emits = <<>>
            /\ ExpiredDraw(room, now) =>
                   /\ LastLog(swept, "time up")
                   /\ \A p \in PlayerIds, res \in Resolutions :
                          LET o == card_resolve(swept, p, draw.cardId, res, nanoid.acks) IN
                          /\ ~AnsweredOk(o)
                          /\ o.room = swept
                          /\ o.emits = <<>>
                          /\ o.acks = 0

\* C25 witness: a drawn card has timed out, and the card:resolve that the
\* drawer makes for it now is refused.
C25_TimedOutThenRefused ==
    \E rc \in DOMAIN rooms :
        LET room == rooms[rc] IN
        /\ LastLog(room, "time up")
        /\ room.currentDraw = Null
        /\ \E p \in PlayerIds :
               /\ taken(room, p) = 1
               /\ ~AnsweredOk(card_resolve(room, p, room.discard[Len(room.discard)],
                                           CHOOSE res \in Resolutions : TRUE, nanoid.acks))

----------------------------------------------------------------------------
(* Reconnection *)

\* socket s is the previous connection of a member whom player:reconnect has
\* bound to another connection
PreviousConnection(s) ==
    /\ s \in DOMAIN socketToPlayer
    /\ socketToPlayer[s].roomCode \in DOMAIN rooms
    /\ \E m \in SeqToSet(Members(rooms[socketToPlayer[s].roomCode])) :
           /\ m.playerId = socketToPlayer[s].playerId
           /\ m.connected
           /\ m.socketId # s

\* C26: after player:reconnect has bound a player to a new connection, a
\* later disconnect event of that player's previous connection does not mark
\* the player disconnected, does not clear the player's new binding, and
\* does not close the room when the player is the host.
C26_PreviousConnectionHarmless ==
    [][\A s \in SocketIds :
           (PreviousConnection(s) /\ Disconnect(s)) =>
               LET rc == socketToPlayer[s].roomCode
                   pid == socketToPlayer[s].playerId
               IN  /\ rc \in DOMAIN rooms'
                   /\ \A m \in SeqToSet(Members(rooms[rc])) :
                          m.playerId = pid =>
                              /\ m \in SeqToSet(Members(rooms'[rc]))
                              /\ m.socketId \in DOMAIN socketToPlayer'
                              /\ socketToPlayer'[m.socketId] = socketToPlayer[m.socketId]]_vars

----------------------------------------------------------------------------
(* Rooms side by side *)

\* the step leaves room rc as it is and acts on another room
ActsOnAnotherRoom(rc) ==
    /\ rc \in DOMAIN rooms
    /\ rc \in DOMAIN rooms'
    /\ rooms'[rc] = rooms[rc]
    /\ rooms' # rooms

\* C27: rooms are independent: an operation on one room, including closing
\* it, never changes another room's state and never removes or alters the
\* connection mapping of a member of another room, even when one connection
\* has joined or created more than one room.
C27_RoomsIndependent ==
    [][/\ \A rc1, rc2 \in DOMAIN rooms :
              (rc1 # rc2 /\ (rc1 \notin DOMAIN rooms' \/ rooms'[rc1] # rooms[rc1]))
                  => (rc2 \in DOMAIN rooms' /\ rooms'[rc2] = rooms[rc2])
       /\ \A rc \in DOMAIN rooms :
              ActsOnAnotherRoom(rc) =>
                  \A m \in SeqToSet(Members(rooms[rc])) :
                      (/\ m.socketId \in DOMAIN socketToPlayer
                       /\ socketToPlayer[m.socketId] = [roomCode |-> rc, playerId |-> m.playerId])
                          => /\ m.socketId \in DOMAIN socketToPlayer'
                             /\ socketToPlayer'[m.socketId] = socketToPlayer[m.socketId]]_vars

----------------------------------------------------------------------------
(* Turn rotation *)

\* every turn:changed among emits announces a player who passes the
\* turn-holder check in room after
AnnouncedHoldsTurn(after, emits) ==
    \A i \in 1..Len(emits) :
        (emits[i].ev = "turn:changed" /\ activePlayers(after) # <<>>) =>
            assertIsTurnPlayer(after, emits[i].playerId).ok

\* C28: after every turn advance in a room with at least one active player,
\* the player id announced in turn:changed is the player for whom the
\* turn-holder check succeeds, so that player's next turn:draw is not
\* rejected with NoTurnPlayer or NotYourTurn; this holds also when seat
\* indices have gaps after departures.
C28_AnnouncedPlayerHoldsTurn ==
    \A rc \in DOMAIN rooms :
        LET room == rooms[rc]
            swept == sweepRoom(room, now)
        IN  /\ AnnouncedHoldsTurn(swept.room, swept.emits)
            /\ \A p \in PlayerIds :
                   /\ \A c \in resolveCardIds(room), res \in resolutionsFor(room) :
                          LET o == card_resolve(room, p, c, res, nanoid.acks)
                          IN  AnnouncedHoldsTurn(o.room, o.emits)
                   /\ \A ch \in RpsChoices :
                          LET o == interaction_rps_choose(room, p, ch)
                          IN  AnnouncedHoldsTurn(o.room, o.emits)
                   /\ \A v \in Votes :
                          LET o == interaction_wyr_vote(room, p, v)
                          IN  AnnouncedHoldsTurn(o.room, o.emits)

\* the seat index that follows the turn's among the active players' seat
\* indices, the lowest one after the highest
NextSeat(room) ==
    LET seats == {activePlayers(room)[i].seatIndex : i \in 1..Len(activePlayers(room))}
        after == {x \in seats : x > room.turnIndex}
        Least(S) == CHOOSE x \in S : \A y \in S : x <= y
    IN  IF after # {} THEN Least(after) ELSE Least(seats)

\* emits announces a turn advance from before, and after gives the turn to
\* the active player at the next seat, who is the one announced
AdvancesToNextSeat(before, after, emits) ==
    \A i \in 1..Len(emits) :
        emits[i].ev = "turn:changed" =>
            /\ currentTurnPlayer(after) # Null
            /\ currentTurnPlayer(after)[1].seatIndex = NextSeat(before)
            /\ currentTurnPlayer(after)[1].playerId = emits[i].playerId

\* room after k turn advances
RECURSIVE Advanced(_, _)
Advanced(room, k) == IF k = 0 THEN room ELSE nextTurn(Advanced(room, k - 1))

\* the turn holders of the n advances that follow, n the number of active
\* players, one entry per advance
NextHolders(room) ==
    [k \in 1..Len(activePlayers(room)) |-> currentTurnPlayer(Advanced(room, k))]

\* C29: in a room from which no player has been removed, each turn advance
\* moves the turn to the active player with the next seat index, wrapping
\* after the last seat, so while the active set is unchanged with n players
\* each of them holds the turn exactly once in any n consecutive advances;
\* spectators never hold the turn.
C29_RoundRobin ==
    \A rc \in DOMAIN rooms :
        LET room == rooms[rc]
            swept == sweepRoom(room, now)
            holders == NextHolders(room)
        IN  /\ AdvancesToNextSeat(room, swept.room, swept.emits)
            /\ \A p \in PlayerIds :
                   /\ \A c \in resolveCardIds(room), res \in resolutionsFor(room) :
                          LET o == card_resolve(room, p, c, res, nanoid.acks)
                          IN  AdvancesToNextSeat(room, o.room, o.emits)
                   /\ \A ch \in RpsChoices :
                          LET o == interaction_rps_choose(room, p, ch)
                          IN  AdvancesToNextSeat(room, o.room, o.emits)
                   /\ \A v \in Votes :
                          LET o == interaction_wyr_vote(room, p, v)
                          IN  AdvancesToNextSeat(room, o.room, o.emits)
            /\ \A k \in DOMAIN holders : holders[k] # Null
            /\ \A pid \in ActiveIds(room) :
                   Cardinality({k \in DOMAIN holders : holders[k][1].playerId = pid}) = 1
            /\ \A i \in 1..Len(room.spectators) :
                   /\ ~assertIsTurnPlayer(room, room.spectators[i].playerId).ok
                   /\ \A k \in DOMAIN holders :
                          holders[k][1].playerId # room.spectators[i].playerId

\* C29 witness: two players and a spectator have joined, and then two turn
\* advances in a row have brought the turn back to the host.
C29_RoundCompleted ==
    \E rc \in DOMAIN rooms :
        LET room == rooms[rc]
            Advance(i) == room.log[i] \in {"resolved", "time up"}
        IN  /\ Len(activePlayers(room)) = 2
            /\ Len(room.spectators) = 1
            /\ room.turnIndex = 0
            /\ SubSeq(room.log, 1, 3) = <<"created", "joined", "joined">>
            /\ Cardinality({i \in 4..Len(room.log) : Advance(i)}) = 2

----------------------------------------------------------------------------
(* Seats *)

\* C30: in every reachable state the seat indices of a room's players are
\* pairwise distinct, a joining player receives a seat index that no current
\* player holds, and a player's seat index never changes after join, for any
\* sequence of joins and kicks.
C30_SeatsDistinctAndStable ==
    [][\A rc \in DOMAIN rooms' :
           LET after == rooms'[rc].players
               before == IF rc \in DOMAIN rooms THEN rooms[rc].players ELSE <<>>
           IN  /\ \A i, j \in 1..Len(after) :
                      i # j => after[i].seatIndex # after[j].seatIndex
               /\ \A j \in 1..Len(after) :
                      IF \E i \in 1..Len(before) : before[i].playerId = after[j].playerId
                      THEN \A i \in 1..Len(before) :
                               before[i].playerId = after[j].playerId
                                   => before[i].seatIndex = after[j].seatIndex
                      ELSE \A i \in 1..Len(before) :
                               before[i].seatIndex # after[j].seatIndex]_vars

----------------------------------------------------------------------------
(* The sweep's reminder and the turn timer *)

\* emits holds the sweep's reminder
Nudges(emits) == \E i \in 1..Len(emits) : emits[i].ev = "player:nudged"

\* the times of the sweep ticks that matter to room's timer: now, the
\* last 15 seconds' start and end, and the timer's end
TimerTimes(room) ==
    {now, now + 1}
        \cup (IF room.turnTimer # Null /\ room.turnTimer[1].enabled
              THEN {t \in {room.turnTimer[1].endsAt - SWEEP_NUDGE_REMAINING - 1,
                           room.turnTimer[1].endsAt - SWEEP_NUDGE_REMAINING,
                           room.turnTimer[1].endsAt - 1,
                           room.turnTimer[1].endsAt} : t >= now}
              ELSE {})

\* C31: during one draw the sweep emits the idle nudge at most once: it
\* fires only while a card is drawn, the timer is enabled and the remaining
\* time is at most 15 s, and further ticks for the same (card, drawer, turn)
\* emit nothing; a new draw can be nudged again.
C31_NudgedOncePerDraw ==
    \A rc \in DOMAIN rooms :
        LET room == rooms[rc] IN
        /\ \A t \in TimerTimes(room) :
               LET s == sweepRoom(room, t) IN
               Nudges(s.emits) =>
                   /\ room.currentDraw # Null
                   /\ room.turnTimer # Null
                   /\ room.turnTimer[1].enabled
                   /\ room.turnTimer[1].endsAt - t > 0
                   /\ room.turnTimer[1].endsAt - t <= SWEEP_NUDGE_REMAINING
                   /\ s.room.currentDraw = room.currentDraw
                   /\ \A t2 \in {u \in TimerTimes(room) : u >= t} :
                          ~Nudges(sweepRoom(s.room, t2).emits)
        /\ \A p \in PlayerIds, c \in drawnCardIds(room) :
               LET o == turn_draw(room, p, c) IN
               (AnsweredOk(o) /\ o.room.turnTimer[1].enabled) =>
                   Nudges(sweepRoom(o.room, o.room.turnTimer[1].endsAt - SWEEP_NUDGE_REMAINING).emits)

\* C31 witness: the drawer of the current card has been reminded, and a tick
\* now sends no second reminder.
C31_Reminded ==
    \E rc \in DOMAIN rooms :
        /\ LastLog(rooms[rc], "afk nudge")
        /\ rooms[rc].currentDraw # Null
        /\ rooms[rc].afkNudged # Null
        /\ ~Nudges(sweepRoom(rooms[rc], now).emits)

\* C32 as claimed: on a sweep tick, a room whose timer object exists but is
\* disabled, or exists with no current draw, has its timer cleared (set to
\* none) by that tick.
C32_DisabledOrOrphanCleared ==
    \A rc \in DOMAIN rooms :
        LET room == rooms[rc] IN
        (room.turnTimer # Null /\ (~room.turnTimer[1].enabled \/ room.currentDraw = Null))
            => sweepRoom(room, now).room.turnTimer = Null

\* C32, amended: on a sweep tick a room whose timer object exists but is
\* disabled is left as it is, timer included; the tick clears a timer only
\* when it is enabled and has run out, and it clears every such timer of a
\* started room that is not paused.
C32_OnlyExpiredCleared ==
    \A rc \in DOMAIN rooms :
        LET room == rooms[rc] IN
        room.turnTimer # Null =>
            \A t \in TimerTimes(room) :
                LET s == sweepRoom(room, t)
                    expired == room.turnTimer[1].enabled /\ room.turnTimer[1].endsAt <= t
                IN  /\ ~room.turnTimer[1].enabled => (s.room = room /\ s.emits = <<>>)
                    /\ s.room.turnTimer = Null => expired
                    /\ (expired /\ room.started /\ ~room.paused) => s.room.turnTimer = Null

\* C32 witness: a card with a disabled timer is drawn, time has passed, and
\* the tick at this time leaves the timer in place.
C32_DisabledTimerStays ==
    \E rc \in DOMAIN rooms :
        LET room == rooms[rc] IN
        /\ room.turnTimer # Null
        /\ ~room.turnTimer[1].enabled
        /\ room.currentDraw # Null
        /\ now >= SWEEP_NUDGE_REMAINING
        /\ sweepRoom(room, now).room.turnTimer = room.turnTimer

----------------------------------------------------------------------------
(* Receipts *)

\* the players a resolution targets for a card of this kind
Targeted(card, resolution) ==
    IF card.kind \in {"chooseTarget", "chooseTargetAndNumber"}
    THEN {resolution.targetPlayerId}
    ELSE IF card.kind = "chooseTwoTargets"
    THEN {resolution.targetPlayerId, resolution.targetPlayerId2}
    ELSE {}

\* C33: after a successful card:resolve of a card whose kind requires a
\* target, the pending list has gained exactly one receipt per distinct
\* targeted player, each assigned to that player and with status pending;
\* for kinds that require no target no receipt is added.
C33_OneReceiptPerTarget ==
    \A rc \in DOMAIN rooms :
        LET room == rooms[rc] IN
        room.currentDraw # Null =>
            \A p \in PlayerIds, res \in Resolutions :
                LET card == Card(room.currentDraw[1].cardId)
                    o == card_resolve(room, p, card.id, res, nanoid.acks)
                    old == Len(room.pendingAcks)
                    gained == SubSeq(o.room.pendingAcks, old + 1, Len(o.room.pendingAcks))
                IN  (AnsweredOk(o) /\ o.room.interaction = Null) =>
                        /\ SubSeq(o.room.pendingAcks, 1, old) = room.pendingAcks
                        /\ Len(gained) = Cardinality(Targeted(card, res))
                        /\ \A t \in Targeted(card, res) :
                               Cardinality({i \in 1..Len(gained) :
                                               /\ gained[i].assignedToPlayerId = t
                                               /\ gained[i].status = "pending"}) = 1

----------------------------------------------------------------------------
(* The timer of a draw *)

\* the seconds a resolution kind adds: single target (a duel's opponent
\* included) 10, number 10, target and number 20, two targets 25
KindAddition(kind) ==
    IF kind \in {"chooseTarget", "rockPaperScissors", "chooseNumber"} THEN 10
    ELSE IF kind = "chooseTargetAndNumber" THEN 20
    ELSE IF kind = "chooseTwoTargets" THEN 25
    ELSE 0

Clamped(seconds) == IF seconds < 20 THEN 20 ELSE IF seconds > 90 THEN 90 ELSE seconds

\* the timer turn:draw installs at time now, enabled with these seconds
EnabledTimer(seconds) ==
    Some([enabled |-> TRUE, secondsTotal |-> seconds, endsAt |-> now + seconds])

DisabledTimer == Some([enabled |-> FALSE, secondsTotal |-> 0, endsAt |-> 0])

\* C34 as claimed: for every card type and resolution kind, the timer for a
\* draw is: disabled for free-text rule cards; otherwise enabled with
\* duration = 30 s base, plus 15 s for rule/role/curse/joker cards or plus
\* 60 s for event cards, plus the kind addition (single target +10, number
\* +10, target-and-number +20, two targets +25), clamped to the range
\* [20, 90] seconds.
C34_TimerAsClaimed ==
    \A rc \in DOMAIN rooms, p \in PlayerIds : \A c \in drawnCardIds(rooms[rc]) :
        LET o == turn_draw(rooms[rc], p, c)
            card == Card(c)
            extra == IF card.type \in {"rule", "role", "curse", "joker"} THEN 15
                     ELSE IF card.type = "event" THEN 60
                     ELSE 0
        IN  AnsweredOk(o) =>
                o.room.turnTimer =
                    IF card.kind = "createRuleText" THEN DisabledTimer
                    ELSE EnabledTimer(Clamped(30 + extra + KindAddition(card.kind)))

\* C34, amended: for every card type and resolution kind, the timer for a
\* draw is: disabled for free-text rule cards and for cards whose title or
\* body holds a long-round phrase; otherwise enabled with duration = 30 s
\* base, plus 15 s for rule/role/curse/joker cards or plus 30 s for event
\* cards, plus the kind addition (single target, a duel's included, +10,
\* number +10, target-and-number +20, two targets +25), clamped to the
\* range [20, 90] seconds.
C34_TimerOfDraw ==
    \A rc \in DOMAIN rooms, p \in PlayerIds : \A c \in drawnCardIds(rooms[rc]) :
        LET o == turn_draw(rooms[rc], p, c)
            card == Card(c)
            extra == IF card.type \in {"rule", "role", "curse", "joker"} THEN 15
                     ELSE IF card.type = "event" THEN 30
                     ELSE 0
        IN  AnsweredOk(o) =>
                o.room.turnTimer =
                    IF card.kind = "createRuleText" \/ "vote" \in card.txtHas THEN DisabledTimer
                    ELSE EnabledTimer(Clamped(30 + extra + KindAddition(card.kind)))

\* C34 witness: an event card that asks for two targets has been drawn and
\* its timer runs for 85 seconds.
C34_EventCardDrawn ==
    \E rc \in DOMAIN rooms :
        LET room == rooms[rc] IN
        /\ room.currentDraw # Null
        /\ Card(room.currentDraw[1].cardId).type = "event"
        /\ Card(room.currentDraw[1].cardId).kind = "chooseTwoTargets"
        /\ room.turnTimer # Null
        /\ room.turnTimer[1].enabled
        /\ room.turnTimer[1].secondsTotal = 85

----------------------------------------------------------------------------
(* Sequential draws: a room of three whose host has turned weighting off,
   playing long enough for the deck to wrap around *)

MaxLongLog == 15    \* log entries a room accumulates in a run of sequential draws

SequenceDecks == { <<"f1", "f3">>, <<"f3", "zz9", "j2", "f1">> }

WeightingOff == [dynamicWeighting |-> FALSE]

\* room:create and two room:join, then room:updateSettings by the host
SequenceLobby ==
    room_updateSettings(
        joinRoom(joinRoom(pushLog(NewRoom("ROOM01", 1, "s1", guestName(1)), "created"),
                          2, "s2", FALSE, guestName(2)),
                 3, "s3", FALSE, guestName(3)),
        1, WeightingOff).room

SequenceInit ==
    /\ now = 0
    /\ rooms = ("ROOM01" :> SequenceLobby)
    /\ socketToPlayer = ("s1" :> [roomCode |-> "ROOM01", playerId |-> 1])
                            @@ ("s2" :> [roomCode |-> "ROOM01", playerId |-> 2])
                            @@ ("s3" :> [roomCode |-> "ROOM01", playerId |-> 3])
    /\ roomCleanupTimeouts = ("ROOM01" :> ROOM_INACTIVE_TIMEOUT)
    /\ byId = SeqToSet(UltimateDeck)
    /\ nanoid = [codes |-> {"ROOM01"}, players |-> 3, acks |-> 0]
    /\ limiter = NoRequests

\* the effect of a handler's outcome, within the log budget of a long run
ApplyLong(roomCode, o) ==
    /\ o.activity \/ o.room # rooms[roomCode]
    /\ Len(o.room.log) <= MaxLongLog
    /\ nanoid' = [nanoid EXCEPT !.acks = @ + o.acks]
    /\ IF o.activity
       THEN updateRoomActivity(roomCode, o.room)
       ELSE /\ rooms' = Put(rooms, roomCode, o.room)
            /\ UNCHANGED roomCleanupTimeouts
    /\ UNCHANGED <<socketToPlayer, byId, now, limiter>>

TurnDrawLong(roomCode, playerId) ==
    /\ roomCode \in DOMAIN rooms
    /\ \E cardId \in drawnCardIds(rooms[roomCode]) :
           ApplyLong(roomCode, turn_draw(rooms[roomCode], playerId, cardId))

CardResolveLong(roomCode, playerId, cardId, resolution) ==
    /\ roomCode \in DOMAIN rooms
    /\ ApplyLong(roomCode,
                 card_resolve(rooms[roomCode], playerId, cardId, resolution, nanoid.acks))

RoomSetDeckLong(roomCode, playerId, deckOrder) ==
    /\ roomCode \in DOMAIN rooms
    /\ ApplyLong(roomCode, room_setDeck(rooms[roomCode], playerId, deckOrder))

NextSequence ==
    \/ \E rc \in RoomCodes, p \in PlayerIds : TurnDrawLong(rc, p)
    \/ \E rc \in DOMAIN rooms, p \in PlayerIds :
           \E c \in resolveCardIds(rooms[rc]), res \in resolutionsFor(rooms[rc]) :
               CardResolveLong(rc, p, c, res)
    \/ \E rc \in RoomCodes, p \in PlayerIds, d \in SequenceDecks : RoomSetDeckLong(rc, p, d)

SpecSequence == SequenceInit /\ [][NextSequence]_vars

\* the successful draws the log records since the room was created or its
\* deck was last replaced
RECURSIVE DrawsLogged(_)
DrawsLogged(log) ==
    IF log = <<>> \/ log[Len(log)] = "deck" THEN 0
    ELSE (IF log[Len(log)] = "drew" THEN 1 ELSE 0) + DrawsLogged(SubSeq(log, 1, Len(log) - 1))

\* C35: with weighting turned off and the deck order unchanged, the k-th
\* successful draw since the room was created or its deck was last replaced
\* returns the card at position (k-1) mod n of the effective order (the
\* custom order when non-empty, else the base order), so the sequence wraps
\* around after n draws.
C35_SequentialDraw ==
    \A rc \in DOMAIN rooms :
        LET room == rooms[rc]
            order == effectiveOrder(room)
            n == Len(order)
            k == DrawsLogged(room.log)
        IN  ~room.settings.dynamicWeighting =>
                /\ Len(room.discard) = k
                /\ \A i \in 1..k : room.discard[i] = order[((i - 1) % n) + 1]
                /\ room.currentDraw # Null =>
                       /\ k > 0
                       /\ room.currentDraw[1].cardId = order[((k - 1) % n) + 1]

\* C35 witness: the base order of five cards has been drawn through and the
\* sixth draw returned its first card again.
C35_WrappedAround ==
    \E rc \in DOMAIN rooms :
        LET room == rooms[rc] IN
        /\ ~room.settings.dynamicWeighting
        /\ room.settings.customDeckOrder = <<>>
        /\ DrawsLogged(room.log) = Len(room.deckOrder) + 1
        /\ room.currentDraw # Null
        /\ room.currentDraw[1].cardId = room.deckOrder[1]

\* C35 witness of the custom order: a replaced deck of two cards has
\* wrapped around.
C35_CustomWrappedAround ==
    \E rc \in DOMAIN rooms :
        LET room == rooms[rc] IN
        /\ ~room.settings.dynamicWeighting
        /\ room.settings.customDeckOrder = <<"f1", "f3">>
        /\ DrawsLogged(room.log) = 3
        /\ room.currentDraw # Null
        /\ room.currentDraw[1].cardId = "f1"

----------------------------------------------------------------------------
(* The timer and the draw *)

\* C36: in every reachable state a room's turnTimer is non-null exactly when
\* its currentDraw is non-null: every step that sets or clears one (draw,
\* resolve, interaction launch, setDeck, timer expiry) sets or clears the
\* other in the same step.
C36_TimerIffDraw ==
    \A rc \in DOMAIN rooms :
        (rooms[rc].turnTimer # Null) <=> (rooms[rc].currentDraw # Null)

\* C36 witness: the host replaced the deck right after a card was drawn, and
\* the room holds neither the draw nor its timer.
C36_DeckReplacedOverDraw ==
    \E rc \in DOMAIN rooms :
        LET room == rooms[rc] IN
        /\ Len(room.log) >= 2
        /\ room.log[Len(room.log)] = "deck"
        /\ room.log[Len(room.log) - 1] = "drew"
        /\ room.currentDraw = Null
        /\ room.turnTimer = Null

----------------------------------------------------------------------------
(* The drawer and the duellists *)

\* the player whose turn it is, NoId when no active player sits at turnIndex
TurnHolderId(room) ==
    IF currentTurnPlayer(room) = Null THEN NoId ELSE currentTurnPlayer(room)[1].playerId

\* C37: in every reachable state, the drawer recorded in currentDraw and
\* both participants of an active duel are current active players of the
\* room, and the drawer is the current turn holder; this holds after any
\* sequence of draws, resolves, kicks and disconnects.
C37_DrawerAndDuellistsPresent ==
    \A rc \in DOMAIN rooms :
        LET room == rooms[rc] IN
        /\ room.currentDraw # Null =>
               /\ room.currentDraw[1].drawnByPlayerId \in ActiveIds(room)
               /\ room.currentDraw[1].drawnByPlayerId = TurnHolderId(room)
        /\ (room.interaction # Null /\ room.interaction[1].kind = "rps") =>
               /\ room.interaction[1].startedByPlayerId \in ActiveIds(room)
               /\ room.interaction[1].opponentPlayerId \in ActiveIds(room)

\* the drawer's half of C37: the drawer recorded in currentDraw is an active
\* player of the room and holds the turn
C37_DrawerOnly ==
    \A rc \in DOMAIN rooms :
        LET room == rooms[rc] IN
        room.currentDraw # Null =>
            /\ room.currentDraw[1].drawnByPlayerId \in ActiveIds(room)
            /\ room.currentDraw[1].drawnByPlayerId = TurnHolderId(room)

\* the duellists' half of C37: both participants of an active duel are
\* active players of the room
C37_DuellistsOnly ==
    \A rc \in DOMAIN rooms :
        LET room == rooms[rc] IN
        (room.interaction # Null /\ room.interaction[1].kind = "rps") =>
            /\ room.interaction[1].startedByPlayerId \in ActiveIds(room)
            /\ room.interaction[1].opponentPlayerId \in ActiveIds(room)

\* Draws, resolutions, kicks and disconnects in a room of three
NextKicks ==
    \/ \E rc \in RoomCodes, p \in PlayerIds : TurnDraw(rc, p)
    \/ \E rc \in DOMAIN rooms, p \in PlayerIds :
           \E c \in resolveCardIds(rooms[rc]), res \in resolutionsFor(rooms[rc]) :
               CardResolve(rc, p, c, res)
    \/ \E s \in SocketIds, rc \in RoomCodes, p \in PlayerIds : HostKick(s, rc, p)
    \/ \E rc \in RoomCodes, p \in PlayerIds : AdminKickPlayer(rc, p)
    \/ \E s \in SocketIds : Disconnect(s)
    \/ SweepTick
    \/ ClockTick

SpecKicks == GameInit /\ [][NextKicks]_vars

----------------------------------------------------------------------------
(* The result callback *)

\* a request answered exactly once, with a success or an error
AnsweredOnce(o) == Len(o.cb) = 1

\* C38: every inbound request invokes its result callback exactly once, with
\* either one success or one error, on every path of every handler (in
\* particular card:resolve on its validation, interaction-launch and
\* normal-resolution paths).
C38_AnsweredExactlyOnce ==
    \A rc \in DOMAIN rooms : \A p \in PlayerIds :
        LET room == rooms[rc] IN
        /\ \A c \in drawnCardIds(room) : AnsweredOnce(turn_draw(room, p, c))
        /\ \A c \in resolveCardIds(room), res \in Resolutions :
               AnsweredOnce(card_resolve(room, p, c, res, nanoid.acks))
        /\ \A ch \in RpsChoices : AnsweredOnce(interaction_rps_choose(room, p, ch))
        /\ \A v \in Votes : AnsweredOnce(interaction_wyr_vote(room, p, v))
        /\ \A a \in 1..MaxAcks : AnsweredOnce(ack_confirm(room, p, a))
        /\ \A d \in DeckOrders : AnsweredOnce(room_setDeck(room, p, d))
        /\ \A patch \in SettingsPatches : AnsweredOnce(room_updateSettings(room, p, patch))
        /\ AnsweredOnce(turn_nudge(room))

\* C38 apart from a duel card resolved with an opponent who is the drawer or
\* is not an active player
C38_AnsweredOnceButInvalidOpponent ==
    \A rc \in DOMAIN rooms : \A p \in PlayerIds :
        LET room == rooms[rc] IN
        /\ \A c \in drawnCardIds(room) : AnsweredOnce(turn_draw(room, p, c))
        /\ \A c \in resolveCardIds(room), res \in Resolutions :
               LET o == card_resolve(room, p, c, res, nanoid.acks)
               IN  \/ AnsweredOnce(o)
                   \/ /\ Card(c).kind = "rockPaperScissors"
                      /\ res.targetPlayerId = p \/ res.targetPlayerId \notin ActiveIds(room)
                      /\ o.cb = <<"INVALID_TARGET", "ok">>
        /\ \A ch \in RpsChoices : AnsweredOnce(interaction_rps_choose(room, p, ch))
        /\ \A v \in Votes : AnsweredOnce(interaction_wyr_vote(room, p, v))
        /\ \A a \in 1..MaxAcks : AnsweredOnce(ack_confirm(room, p, a))
        /\ \A d \in DeckOrders : AnsweredOnce(room_setDeck(room, p, d))
        /\ \A patch \in SettingsPatches : AnsweredOnce(room_updateSettings(room, p, patch))
        /\ AnsweredOnce(turn_nudge(room))

----------------------------------------------------------------------------
(* Room codes, character by character *)

UpperLetters == <<"A", "B", "C", "D", "E", "F", "G", "H", "I", "J", "K", "L", "M",
                  "N", "O", "P", "Q", "R", "S", "T", "U", "V", "W", "X", "Y", "Z">>
LowerLetters == <<"a", "b", "c", "d", "e", "f", "g", "h", "i", "j", "k", "l", "m",
                  "n", "o", "p", "q", "r", "s", "t", "u", "v", "w", "x", "y", "z">>
Digits == {"0", "1", "2", "3", "4", "5", "6", "7", "8", "9"}

\* the alphabet of nanoid: A-Z, a-z, 0-9, '_' and '-'
urlAlphabet == SeqToSet(UpperLetters) \cup SeqToSet(LowerLetters) \cup Digits \cup {"_", "-"}

\* String.prototype.toUpperCase, on a sequence of characters
toUpperCase(str) ==
    [i \in DOMAIN str |->
        IF \E k \in DOMAIN LowerLetters : LowerLetters[k] = str[i]
        THEN UpperLetters[CHOOSE k \in DOMAIN LowerLetters : LowerLetters[k] = str[i]]
        ELSE str[i]]

CODE_LENGTH == 6

\* typeof code === 'string' && code.length === 6 && /^[A-Z0-9]+$/.test(code)
isValidRoomCode(code) ==
    /\ Len(code) = CODE_LENGTH
    /\ \A i \in DOMAIN code : code[i] \in SeqToSet(UpperLetters) \cup Digits

\* the characters nanoid draws from in this development: one of each class
\* of its alphabet
IdChars == {"q", "Z", "7", "_", "-"}

\* what nanoid(6) can return
nanoid6 == [1..CODE_LENGTH -> IdChars \cap urlAlphabet]

\* room:create of the first room of a server, with the room code spelled out
RoomCreateSpelled(socket, name) ==
    /\ rooms = <<>>
    /\ \E id \in nanoid6 : RoomCreateCoded(socket, name, toUpperCase(id))
    /\ UNCHANGED limiter

\* the room codes a client can send: the codes of the rooms, as displayed
sentRoomCodes == DOMAIN rooms

\* room:join with a room code that passes the handler's first check
RoomJoinSpelled(socket, roomCode, spectator, name) ==
    /\ isValidRoomCode(roomCode)
    /\ RoomJoin(socket, roomCode, spectator, name)

NextCodes ==
    \/ nanoid.players < MaxMembers /\ RoomCreateSpelled(NewSocket, guestName(nanoid.players + 1))
    \/ \E rc \in sentRoomCodes, sp \in BOOLEAN :
           /\ nanoid.players < MaxMembers
           /\ RoomJoinSpelled(NewSocket, rc, sp, guestName(nanoid.players + 1))

SpecCodes == Init /\ [][NextCodes]_vars

\* C39: every room code that room:create can return (a 6-character id drawn
\* from the id generator's alphabet A-Z, a-z, 0-9, '_' and '-', then
\* upper-cased) passes the room-code shape check applied by room:join,
\* room:sync, player:reconnect and turn:draw, so every created room can be
\* joined and played by its code.
C39_CreatedCodesValid ==
    \A rc \in DOMAIN rooms : isValidRoomCode(rc)

\* the codes made of letters and digits alone pass the check
C39_AlphanumericCodesValid ==
    \A rc \in DOMAIN rooms :
        (\A i \in DOMAIN rc : rc[i] \notin {"_", "-"}) => isValidRoomCode(rc)

====
